---- MODULE Spec2Model ----
(***************************************************************************)
(* The Service event loop of tentacle (src/tentacle/src/service.rs): the   *)
(* session map, the listen set, the pending counter, the three buffer      *)
(* classes and the poll_next round, with the sessions, the handler         *)
(* adapters, the FutureTaskManager and the user's Control as environment.  *)
(***************************************************************************)
EXTENDS Integers, Sequences, FiniteSets, TLC

\* ------------------------------------------------------------------ bounds
\* SessionId is a 32-bit counter in the program; the model keeps the
\* wrap-around but over a small id space.
IdModulus == 3
\* Free places of a bounded channel behind a Buffer at the moment its receiver
\* stops taking items (SEND_SIZE / RECEIVED_SIZE in the program).
ChanCap == 1
\* config.max_connection_number
max_connection_number == 1
\* config.session_config.send_event_size / recv_event_size
send_event_size == 1
recv_event_size == 1
\* Cap on dial/listen attempts in flight and on held handler events.
MaxPending == 2
MaxHeld == 2
\* usize and u32 are 64 and 32 bits wide in the program; the model keeps the
\* truncation of `as u32` but over small ranges.
UsizeModulus == 16
U32Modulus == 4

\* ------------------------------------------------------------------ values
NoKey == "nokey"
Keys == {"k1", "k2"}
NoId == -1
SessionIds == 0 .. (IdModulus - 1)
NoPeer == "none"

Addr(h, p) == [host |-> h, p2p |-> p]
NoAddr == Addr("", NoPeer)
\* an address the transport can dial (it names the peer id of k1) and one
\* whose scheme no transport supports
DialAddrs == {Addr("d1", "p1")}
BadAddr == Addr("bad", NoPeer)
ListenAddrs == {Addr("l1", NoPeer)}
RemoteAddr == Addr("r1", NoPeer)

\* protocol_configs: protocol 1 has a service-level handle and a before_send
\* hook and is in config.event; protocol 2 has a session-level handle.
ProtocolIds == {1, 2}
protocol_configs ==
    [p \in ProtocolIds |->
        IF p = 1
        THEN [service_handle |-> "Callback", session_handle |-> "Neither", before_send |-> TRUE]
        ELSE [service_handle |-> "Neither", session_handle |-> "Callback", before_send |-> FALSE]]
config_event == {1}

\* ----------------------------------------------------------------- helpers
RECURSIVE SumOver(_, _)
SumOver(f, D) ==
    IF D = {} THEN 0
    ELSE LET x == CHOOSE y \in D : TRUE IN f[x] + SumOver(f, D \ {x})

\* the elements of a finite set in some fixed order (the iteration order of a
\* HashMap / HashSet)
RECURSIVE SetToSeq(_)
SetToSeq(D) ==
    IF D = {} THEN <<>>
    ELSE LET x == CHOOSE y \in D : TRUE IN <<x>> \o SetToSeq(D \ {x})

Restrict(f, D) == [x \in D |-> f[x]]
Extend(f, k, v) == [x \in (DOMAIN f) \cup {k} |-> IF x = k THEN v ELSE f[x]]

\* a ServiceHandle callback, as recorded in calls
Call(cb, kind, id, address, proto_id, detail) ==
    [cb |-> cb, kind |-> kind, id |-> id, address |-> address,
     proto_id |-> proto_id, detail |-> detail]
handle_error(s, kind, id, address, proto_id, detail) ==
    [s EXCEPT !.calls = Append(@, Call("handle_error", kind, id, address, proto_id, detail))]
handle_event(s, kind, id, address) ==
    [s EXCEPT !.calls = Append(@, Call("handle_event", kind, id, address, 0, ""))]
handle_proto(s, kind, id, proto_id) ==
    [s EXCEPT !.calls = Append(@, Call("handle_proto", kind, id, NoAddr, proto_id, ""))]

\* an item of a session's outbound buffer (a prioritized SessionEvent)
Item(pri, ev, proto_id, data) == [pri |-> pri, ev |-> ev, proto_id |-> proto_id, data |-> data]

\* ------------------------------------------------------------------- State
\* State { forever, pending, shutdown }
State_new(forever) == [forever |-> forever, pending |-> 0, shutdown |-> FALSE]
increase(st) == [st EXCEPT !.pending = @ + 1]
\* decrease that leaves the count
decrease_Keep(st) == st
\* pending is unsigned: a decrement at zero overflows. The model records the
\* count -1 and the service stops there (pc = "overflow").
decrease(st) == [st EXCEPT !.pending = @ - 1]
pre_shutdown(st) == [st EXCEPT !.shutdown = TRUE]
\* is_shutdown that only looks at the flag
is_shutdown_FlagOnly(st) == st.shutdown
is_shutdown(st) == st.shutdown \/ (~ st.forever /\ st.pending = 0)
into_inner(st) == st.pending

\* ------------------------------------------------------------------ Buffer
\* A Buffer is its holding vector (buffer), the free places of the bounded
\* channel it feeds (room) and whether the channel's receiver still exists
\* (alive). A receiver that keeps up with the Service never lets the channel
\* fill (room = Prompt); one that has stopped leaves a number of free places.
Prompt == -1
Buffer_new == [buffer |-> <<>>, room |-> Prompt, alive |-> TRUE]
Buffer_push(b, item) == [b EXCEPT !.buffer = Append(@, item)]
Buffer_len(b) == Len(b.buffer)
Buffer_is_empty(b) == b.buffer = <<>>
Buffer_clear(b) == [b EXCEPT !.buffer = <<>>]

\* try_send: move items into the channel while it has room
RECURSIVE try_send(_)
try_send(b) ==
    IF b.buffer = <<>> THEN [b |-> b, res |-> "Ok"]
    ELSE IF ~ b.alive THEN [b |-> Buffer_clear(b), res |-> "Disconnect"]
    ELSE IF b.room = 0 THEN [b |-> b, res |-> "Pending"]
    ELSE try_send([b EXCEPT !.buffer = Tail(@),
                            !.room = IF @ = Prompt THEN Prompt ELSE @ - 1])

\* ------------------------------------------------------- SessionController
SessionController_new(id, address, ty, remote_pubkey) ==
    [id |-> id, address |-> address, ty |-> ty, remote_pubkey |-> remote_pubkey,
     buffer |-> <<>>, room |-> Prompt, alive |-> TRUE]
Controller_push(c, pri, ev) == Buffer_push(c, Item(pri, ev, 0, ""))
push_message(c, proto_id, pri, data) == Buffer_push(c, Item(pri, "ProtocolMessage", proto_id, data))

\* --------------------------------------------------------------- Service
\* Operators on the Service take and return the record s of its fields.

\* the sequence of the callbacks mk[x], one for each element x of ids in keep
CallsWhere(ids, keep, mk) ==
    LET sel == SelectSeq(ids, LAMBDA x : x \in keep) IN [i \in 1 .. Len(sel) |-> mk[sel[i]]]

\* distribute_to_session that drops a session whose channel is full
distribute_to_session_DropBlocked(s) ==
    IF s.shutdown THEN s
    ELSE LET r == [id \in DOMAIN s.sessions |-> try_send(s.sessions[id])]
             kept == {id \in DOMAIN r : r[id].res # "Pending"}
         IN  [s EXCEPT
                !.sessions = [id \in kept |-> r[id].b],
                !.calls = @ \o CallsWhere(SetToSeq(DOMAIN s.sessions),
                                {id \in DOMAIN r : r[id].res = "Pending"},
                                [id \in DOMAIN r |->
                                   Call("handle_error", "SessionBlocked", id,
                                        s.sessions[id].address, 0, "")])]

distribute_to_session(s) ==
    IF s.shutdown THEN s
    ELSE LET r == [id \in DOMAIN s.sessions |-> try_send(s.sessions[id])] IN
         [s EXCEPT
            !.sessions = [id \in DOMAIN s.sessions |-> r[id].b],
            !.calls = @ \o CallsWhere(SetToSeq(DOMAIN s.sessions),
                            {id \in DOMAIN r : r[id].res = "Pending"},
                            [id \in DOMAIN r |->
                               Call("handle_error", "SessionBlocked", id,
                                    s.sessions[id].address, 0, "")])]

\* session_close that leaves the session's handler records behind
session_close_KeepHandles(s, id, source) ==
    IF source = "External"
    THEN IF id \in DOMAIN s.sessions
         THEN distribute_to_session(
                [s EXCEPT !.sessions[id] = Controller_push(@, "High", "SessionClose")])
         ELSE s
    ELSE IF id \in DOMAIN s.sessions
         THEN handle_event(
                [s EXCEPT !.sessions = Restrict(@, DOMAIN @ \ {id})],
                "SessionClose", id, s.sessions[id].address)
         ELSE s

\* session_close that treats a user's Disconnect like the session's own close
session_close_Abrupt(s, id, source) ==
    LET s1 == [s EXCEPT !.session_proto_handles =
                  Restrict(@, {k \in DOMAIN @ : k[1] # id})] IN
    IF id \in DOMAIN s1.sessions
    THEN handle_event(
           [s1 EXCEPT !.sessions = Restrict(@, DOMAIN @ \ {id})],
           "SessionClose", id, s1.sessions[id].address)
    ELSE s1

\* Close the specified session, clean up the handle
session_close(s, id, source) ==
    IF source = "External"
    THEN IF id \in DOMAIN s.sessions
         THEN distribute_to_session(
                [s EXCEPT !.sessions[id] = Controller_push(@, "High", "SessionClose")])
         ELSE s
    ELSE LET s1 == [s EXCEPT !.session_proto_handles =
                        Restrict(@, {k \in DOMAIN @ : k[1] # id})] IN
         IF id \in DOMAIN s1.sessions
         THEN handle_event(
                [s1 EXCEPT !.sessions = Restrict(@, DOMAIN @ \ {id})],
                "SessionClose", id, s1.sessions[id].address)
         ELSE s1

RECURSIVE CloseAll(_, _, _)
CloseAll(s, ids, source) ==
    IF ids = <<>> THEN s
    ELSE CloseAll(session_close(s, Head(ids), source), Tail(ids), source)

\* a Shutdown that asks every session to close, whatever quick says
Shutdown_Graceful(s, quick) ==
    CloseAll([s EXCEPT
                !.state = pre_shutdown(@),
                !.listens = {},
                !.calls = @ \o [i \in 1 .. Len(SetToSeq(s.listens)) |->
                                  Call("handle_event", "ListenClose", NoId,
                                       SetToSeq(s.listens)[i], 0, "")],
                !.future_task_sender = Buffer_clear(@)],
             SetToSeq(DOMAIN s.sessions), "External")

\* a Shutdown(quick) that leaves the handler buffers in place
Shutdown_KeepHandlers(s, quick) ==
    LET addrs == SetToSeq(s.listens)
        s1 == [s EXCEPT
                 !.state = pre_shutdown(@),
                 !.listens = {},
                 !.calls = @ \o [i \in 1 .. Len(addrs) |->
                                   Call("handle_event", "ListenClose", NoId, addrs[i], 0, "")],
                 !.future_task_sender = Buffer_clear(@)]
        ids == SetToSeq(DOMAIN s.sessions)
    IN  IF quick
        THEN CloseAll([s1 EXCEPT
                         !.service_task_receiver.closed = TRUE,
                         !.session_event_receiver.closed = TRUE],
                      ids, "Internal")
        ELSE CloseAll(s1, ids, "External")

\* a Shutdown(quick) that leaves the listen set as it is
Shutdown_KeepListens(s, quick) ==
    LET s1 == [s EXCEPT
                 !.state = pre_shutdown(@),
                 !.future_task_sender = Buffer_clear(@)]
        ids == SetToSeq(DOMAIN s.sessions)
    IN  IF quick
        THEN CloseAll([s1 EXCEPT
                         !.service_task_receiver.closed = TRUE,
                         !.session_event_receiver.closed = TRUE,
                         !.service_proto_handles = << >>,
                         !.session_proto_handles = << >>],
                      ids, "Internal")
        ELSE CloseAll(s1, ids, "External")

\* ServiceTask::Shutdown(quick)
Shutdown(s, quick) ==
    LET addrs == SetToSeq(s.listens)
        s1 == [s EXCEPT
                 !.state = pre_shutdown(@),
                 !.listens = {},
                 !.calls = @ \o [i \in 1 .. Len(addrs) |->
                                   Call("handle_event", "ListenClose", NoId, addrs[i], 0, "")],
                 !.future_task_sender = Buffer_clear(@)]
        ids == SetToSeq(DOMAIN s.sessions)
    IN  IF quick
        THEN CloseAll([s1 EXCEPT
                         !.service_task_receiver.closed = TRUE,
                         !.session_event_receiver.closed = TRUE,
                         !.service_proto_handles = << >>,
                         !.session_proto_handles = << >>],
                      ids, "Internal")
        ELSE CloseAll(s1, ids, "External")

\* distribute_to_user_level that reports a closed handler and goes on
distribute_to_user_level_NoShutdown(s) ==
    IF s.shutdown THEN s
    ELSE LET rv == [p \in DOMAIN s.service_proto_handles |-> try_send(s.service_proto_handles[p])]
             rn == [k \in DOMAIN s.session_proto_handles |-> try_send(s.session_proto_handles[k])]
             kind(res) == IF res = "Pending" THEN "Block" ELSE "AbnormallyClosed"
         IN  [s EXCEPT
                !.service_proto_handles = [p \in DOMAIN rv |-> rv[p].b],
                !.session_proto_handles = [k \in DOMAIN rn |-> rn[k].b],
                !.calls = @ \o CallsWhere(SetToSeq(DOMAIN rv),
                                {p \in DOMAIN rv : rv[p].res # "Ok"},
                                [p \in DOMAIN rv |->
                                   Call("handle_error", "ProtocolHandleError", NoId,
                                        NoAddr, p, kind(rv[p].res))])
                            \o CallsWhere(SetToSeq(DOMAIN rn),
                                {k \in DOMAIN rn : rn[k].res # "Ok"},
                                [k \in DOMAIN rn |->
                                   Call("handle_error", "ProtocolHandleError", k[1],
                                        NoAddr, k[2], kind(rn[k].res))])]

\* Distribute event to user level
distribute_to_user_level(s) ==
    IF s.shutdown THEN s
    ELSE LET rv == [p \in DOMAIN s.service_proto_handles |-> try_send(s.service_proto_handles[p])]
             rn == [k \in DOMAIN s.session_proto_handles |-> try_send(s.session_proto_handles[k])]
             kind(res) == IF res = "Pending" THEN "Block" ELSE "AbnormallyClosed"
             error == (\E p \in DOMAIN rv : rv[p].res = "Disconnect")
                      \/ (\E k \in DOMAIN rn : rn[k].res = "Disconnect")
             s1 == [s EXCEPT
                      !.service_proto_handles = [p \in DOMAIN rv |-> rv[p].b],
                      !.session_proto_handles = [k \in DOMAIN rn |-> rn[k].b],
                      !.calls = @ \o CallsWhere(SetToSeq(DOMAIN rv),
                                      {p \in DOMAIN rv : rv[p].res # "Ok"},
                                      [p \in DOMAIN rv |->
                                         Call("handle_error", "ProtocolHandleError", NoId,
                                              NoAddr, p, kind(rv[p].res))])
                                  \o CallsWhere(SetToSeq(DOMAIN rn),
                                      {k \in DOMAIN rn : rn[k].res # "Ok"},
                                      [k \in DOMAIN rn |->
                                         Call("handle_error", "ProtocolHandleError", k[1],
                                              NoAddr, k[2], kind(rn[k].res))])]
         IN  IF error THEN Shutdown(s1, FALSE) ELSE s1


HasHandle(h) == h \in {"Callback", "Both"}

\* session_handles_open that creates no record
session_handles_open_None(s, id) == s

\* Spawn protocol handle: one handler record per protocol with a
\* session-level handle, only if the session is in the session map
session_handles_open(s, id) ==
    LET ps == {p \in DOMAIN protocol_configs :
                 HasHandle(protocol_configs[p].session_handle) /\ id \in DOMAIN s.sessions}
    IN  [s EXCEPT !.session_proto_handles =
            [k \in (DOMAIN @) \cup {<<id, p>> : p \in ps} |->
                IF k[1] = id /\ k[2] \in ps THEN Buffer_new ELSE @[k]]]

\* an allocation that does not probe the session map
NextFree_NoProbe(n, used) == (n + 1) % IdModulus

RECURSIVE NextFree(_, _)
NextFree(n, used) ==
    LET m == (n + 1) % IdModulus IN
    IF m \notin used THEN m ELSE NextFree(m, used)

generate_next_session(s) ==
    [s EXCEPT !.next_session = NextFree(s.next_session, DOMAIN s.sessions)]

reached_max_connection_limit(s) ==
    max_connection_number < Cardinality(DOMAIN s.sessions) + into_inner(s.state)

\* the peer id derived from a public key, and the peer id an address names
peer_id(key) == IF key = "k1" THEN "p1" ELSE "p2"
extract_peer_id(address) == address.p2p

\* session_open without the search for a session with the same public key
session_open_NoRepeatCheck(s, remote_pubkey, address, ty, listen_addr) ==
    LET s0 == [s EXCEPT !.dial_protocols = Restrict(@, DOMAIN @ \ {address})]
        addr1 == IF remote_pubkey # NoKey /\ extract_peer_id(address) = NoPeer
                 THEN Addr(address.host, peer_id(remote_pubkey))
                 ELSE address
        s1 == generate_next_session(s0)
        id == s1.next_session
        s2 == [s1 EXCEPT !.sessions =
                 Extend(@, id, SessionController_new(id, addr1, ty, remote_pubkey))]
        s3 == session_handles_open(s2, id)
    IN  IF remote_pubkey # NoKey /\ extract_peer_id(address) # NoPeer
           /\ peer_id(remote_pubkey) # extract_peer_id(address)
        THEN handle_error(s0, "DialerError", NoId, address, 0, "PeerIdNotMatch")
        ELSE handle_event(s3, "SessionOpen", id, addr1)

\* session_open that reports every repeated connection as a dialer error
session_open_DialerErrorOnly(s, remote_pubkey, address, ty, listen_addr) ==
    LET s0 == [s EXCEPT !.dial_protocols = Restrict(@, DOMAIN @ \ {address})]
        same == {id \in DOMAIN s0.sessions : s0.sessions[id].remote_pubkey = remote_pubkey}
    IN  IF remote_pubkey # NoKey /\ same # {}
        THEN handle_error(s0, "DialerError", CHOOSE x \in same : TRUE, address, 0,
                          "RepeatedConnection")
        ELSE session_open_NoRepeatCheck(s, remote_pubkey, address, ty, listen_addr)

\* session_open that does not compare the peer id of the address with the key
session_open_NoPeerCheck(s, remote_pubkey, address, ty, listen_addr) ==
    LET s0 == [s EXCEPT !.dial_protocols = Restrict(@, DOMAIN @ \ {address})]
        same == {id \in DOMAIN s0.sessions : s0.sessions[id].remote_pubkey = remote_pubkey}
        s1 == generate_next_session(s0)
        id == s1.next_session
        s2 == [s1 EXCEPT !.sessions =
                 Extend(@, id, SessionController_new(id, address, ty, remote_pubkey))]
    IN  IF remote_pubkey # NoKey /\ same # {}
        THEN handle_error(s0, IF ty = "Outbound" THEN "DialerError" ELSE "ListenError",
                          CHOOSE x \in same : TRUE,
                          IF ty = "Outbound" THEN address ELSE listen_addr, 0,
                          "RepeatedConnection")
        ELSE handle_event(session_handles_open(s2, id), "SessionOpen", id, address)

\* session_open that opens the session protocol handles before it inserts the
\* SessionController
session_open_HandlesFirst(s, remote_pubkey, address, ty, listen_addr) ==
    LET s0 == [s EXCEPT !.dial_protocols = Restrict(@, DOMAIN @ \ {address})]
        same == {id \in DOMAIN s0.sessions : s0.sessions[id].remote_pubkey = remote_pubkey}
        addr1 == IF remote_pubkey # NoKey /\ extract_peer_id(address) = NoPeer
                 THEN Addr(address.host, peer_id(remote_pubkey))
                 ELSE address
        s1 == generate_next_session(s0)
        id == s1.next_session
        s2 == session_handles_open(s1, id)
        s3 == [s2 EXCEPT !.sessions =
                 Extend(@, id, SessionController_new(id, addr1, ty, remote_pubkey))]
    IN  IF remote_pubkey # NoKey /\ same # {}
        THEN LET existing == CHOOSE x \in same : TRUE IN
             IF ty = "Outbound"
             THEN handle_error(s0, "DialerError", existing, address, 0, "RepeatedConnection")
             ELSE handle_error(s0, "ListenError", existing, listen_addr, 0, "RepeatedConnection")
        ELSE IF remote_pubkey # NoKey /\ extract_peer_id(address) # NoPeer
                /\ peer_id(remote_pubkey) # extract_peer_id(address)
        THEN handle_error(s0, "DialerError", NoId, address, 0, "PeerIdNotMatch")
        ELSE handle_event(s3, "SessionOpen", id, addr1)

\* Session open
session_open(s, remote_pubkey, address, ty, listen_addr) ==
    LET s0 == [s EXCEPT !.dial_protocols = Restrict(@, DOMAIN @ \ {address})]
        same == {id \in DOMAIN s0.sessions : s0.sessions[id].remote_pubkey = remote_pubkey}
        addr1 == IF remote_pubkey # NoKey /\ extract_peer_id(address) = NoPeer
                 THEN Addr(address.host, peer_id(remote_pubkey))
                 ELSE address
        s1 == generate_next_session(s0)
        id == s1.next_session
        s2 == [s1 EXCEPT !.sessions =
                 Extend(@, id, SessionController_new(id, addr1, ty, remote_pubkey))]
        s3 == session_handles_open(s2, id)
    IN  IF remote_pubkey # NoKey /\ same # {}
        THEN LET existing == CHOOSE x \in same : TRUE IN
             IF ty = "Outbound"
             THEN handle_error(s0, "DialerError", existing, address, 0, "RepeatedConnection")
             ELSE handle_error(s0, "ListenError", existing, listen_addr, 0, "RepeatedConnection")
        ELSE IF remote_pubkey # NoKey /\ extract_peer_id(address) # NoPeer
                /\ peer_id(remote_pubkey) # extract_peer_id(address)
        THEN handle_error(s0, "DialerError", NoId, address, 0, "PeerIdNotMatch")
        ELSE handle_event(s3, "SessionOpen", id, addr1)

\* Open the handle corresponding to the protocol
protocol_open(s, id, proto_id, source) ==
    IF source = "External"
    THEN IF id \in DOMAIN s.sessions
         THEN distribute_to_session(
                [s EXCEPT !.sessions[id] =
                    Buffer_push(@, Item("High", "ProtocolOpen", proto_id, ""))])
         ELSE s
    ELSE IF proto_id \in config_event /\ id \in DOMAIN s.sessions
         THEN handle_proto(s, "Connected", id, proto_id)
         ELSE s

\* protocol_message without the config.event test
protocol_message_AllProtocols(s, session_id, proto_id) ==
    IF session_id \in DOMAIN s.sessions
    THEN handle_proto(s, "Received", session_id, proto_id)
    ELSE s

\* Processing the received data
protocol_message(s, session_id, proto_id) ==
    IF proto_id \in config_event /\ session_id \in DOMAIN s.sessions
    THEN handle_proto(s, "Received", session_id, proto_id)
    ELSE s

\* protocol_close that flushes the session buffers also when the user names
\* a session the map does not have
protocol_close_Flush(s, session_id, proto_id, source) ==
    IF source = "External"
    THEN IF session_id \in DOMAIN s.sessions
         THEN distribute_to_session(
                [s EXCEPT !.sessions[session_id] =
                    Buffer_push(@, Item("High", "ProtocolClose", proto_id, ""))])
         ELSE distribute_to_session(s)
    ELSE LET s1 == IF proto_id \in config_event /\ session_id \in DOMAIN s.sessions
                   THEN handle_proto(s, "Disconnected", session_id, proto_id)
                   ELSE s
         IN  [s1 EXCEPT !.session_proto_handles =
                Restrict(@, DOMAIN @ \ {<<session_id, proto_id>>})]

\* Protocol stream is closed, clean up data
protocol_close(s, session_id, proto_id, source) ==
    IF source = "External"
    THEN IF session_id \in DOMAIN s.sessions
         THEN distribute_to_session(
                [s EXCEPT !.sessions[session_id] =
                    Buffer_push(@, Item("High", "ProtocolClose", proto_id, ""))])
         ELSE s
    ELSE LET s1 == IF proto_id \in config_event /\ session_id \in DOMAIN s.sessions
                   THEN handle_proto(s, "Disconnected", session_id, proto_id)
                   ELSE s
         IN  [s1 EXCEPT !.session_proto_handles =
                Restrict(@, DOMAIN @ \ {<<session_id, proto_id>>})]

RECURSIVE OpenAll(_, _, _)
OpenAll(s, id, protos) ==
    IF protos = <<>> THEN s
    ELSE OpenAll(protocol_open(s, id, Head(protos), "External"), id, Tail(protos))

\* the before_send hook of a protocol
before_send(data) == IF data = "d" THEN "f(d)" ELSE data

RECURSIVE PushAll(_, _, _, _, _)
PushAll(s, ids, proto_id, priority, data) ==
    IF ids = <<>> THEN s
    ELSE PushAll(
           IF Head(ids) \in DOMAIN s.sessions
           THEN [s EXCEPT !.sessions[Head(ids)] = push_message(@, proto_id, priority, data)]
           ELSE s,
           Tail(ids), proto_id, priority, data)

\* handle_message that sends to every session whatever the target
handle_message_Broadcast(s, target, proto_id, priority, data) ==
    LET data1 == IF proto_id \in s.before_sends THEN before_send(data) ELSE data
    IN  distribute_to_session(
          PushAll(s, SetToSeq(DOMAIN s.sessions), proto_id, priority, data1))

handle_message(s, target, proto_id, priority, data) ==
    LET data1 == IF proto_id \in s.before_sends THEN before_send(data) ELSE data
        ids == IF target.kind = "All" THEN SetToSeq(DOMAIN s.sessions) ELSE SetToSeq(target.ids)
    IN  distribute_to_session(PushAll(s, ids, proto_id, priority, data1))

\* the tasks that leave the buffer enter the FutureTaskManager
send_pending_task(s) ==
    LET r == try_send(s.future_task_sender)
        sent == Len(s.future_task_sender.buffer) - Len(r.b.buffer)
    IN  [s EXCEPT !.future_task_sender = r.b,
                  !.future_tasks = IF r.res = "Disconnect" THEN @
                                   ELSE @ \o SubSeq(s.future_task_sender.buffer, 1, sent)]

send_future_task(s, task) ==
    send_pending_task([s EXCEPT !.future_task_sender = Buffer_push(@, task)])

\* instantiate the service-level handles (each gets Init at once) and move
\* the before_send hooks out of the protocol metas
init_proto_handles(s) ==
    LET ps == {p \in DOMAIN protocol_configs : HasHandle(protocol_configs[p].service_handle)}
        order == SetToSeq(ps)
    IN  [s EXCEPT
           !.service_proto_handles =
               [p \in (DOMAIN @) \cup ps |-> IF p \in ps THEN Buffer_new ELSE @[p]],
           !.inits = [p \in DOMAIN @ |-> IF p \in ps THEN @[p] + 1 ELSE @[p]],
           !.wait_handle = @ \o [i \in 1 .. Len(order) |->
                                   [sender |-> TRUE, task |-> <<"service_proto", order[i]>>]],
           !.before_sends = @ \cup {p \in DOMAIN protocol_configs :
                                      protocol_configs[p].before_send}]

\* try_update_listens that tells the service-level handlers only
try_update_listens_ServiceOnly(s) ==
    IF Cardinality(s.listens) = Cardinality(s.service_context_listens) THEN s
    ELSE LET upd == Item("Normal", "Update", 0, s.listens) IN
         distribute_to_user_level(
           [s EXCEPT
              !.service_context_listens = s.listens,
              !.service_proto_handles = [p \in DOMAIN @ |-> Buffer_push(@[p], upd)]])

\* When listen update, call here
try_update_listens(s) ==
    IF Cardinality(s.listens) = Cardinality(s.service_context_listens) THEN s
    ELSE LET upd == Item("Normal", "Update", 0, s.listens) IN
         distribute_to_user_level(
           [s EXCEPT
              !.service_context_listens = s.listens,
              !.service_proto_handles = [p \in DOMAIN @ |-> Buffer_push(@[p], upd)],
              !.session_proto_handles = [k \in DOMAIN @ |-> Buffer_push(@[k], upd)]])

\* what multi_transport.listen / dial accept
Supported(address) == address # BadAddr

FutureTask(kind, address) == [kind |-> kind, address |-> address]

\* listen_inner that makes a state in pre-shutdown run again
listen_inner_Rearm(s, address) ==
    IF ~ Supported(address) THEN [s |-> s, ok |-> FALSE]
    ELSE [s |-> [s EXCEPT
                   !.future_task_sender = Buffer_push(@, FutureTask("listen", address)),
                   !.state = [increase(@) EXCEPT !.shutdown = FALSE],
                   !.attempts = @ + 1],
          ok |-> TRUE]

\* listen_inner that pushes the future twice
listen_inner_Twice(s, address) ==
    IF ~ Supported(address) THEN [s |-> s, ok |-> FALSE]
    ELSE [s |-> [s EXCEPT
                   !.future_task_sender =
                       Buffer_push(Buffer_push(@, FutureTask("listen", address)),
                                   FutureTask("listen", address)),
                   !.state = increase(@),
                   !.attempts = @ + 1],
          ok |-> TRUE]

\* listen_inner that records the address as listened on at once
listen_inner_Eager(s, address) ==
    IF ~ Supported(address) THEN [s |-> s, ok |-> FALSE]
    ELSE [s |-> [s EXCEPT
                   !.future_task_sender = Buffer_push(@, FutureTask("listen", address)),
                   !.state = increase(@),
                   !.attempts = @ + 1,
                   !.listens = @ \cup {address}],
          ok |-> TRUE]

\* Use by inner
listen_inner(s, address) ==
    IF ~ Supported(address) THEN [s |-> s, ok |-> FALSE]
    ELSE [s |-> [s EXCEPT
                   !.future_task_sender = Buffer_push(@, FutureTask("listen", address)),
                   !.state = increase(@),
                   !.attempts = @ + 1],
          ok |-> TRUE]

\* dial_inner that does not count the attempt
dial_inner_NoIncrease(s, address, target) ==
    LET s1 == [s EXCEPT !.dial_protocols = Extend(@, address, target)] IN
    IF ~ Supported(address) THEN [s |-> s1, ok |-> FALSE]
    ELSE [s |-> [s1 EXCEPT
                   !.future_task_sender = Buffer_push(@, FutureTask("dial", address)),
                   !.attempts = @ + 1],
          ok |-> TRUE]

dial_inner(s, address, target) ==
    LET s1 == [s EXCEPT !.dial_protocols = Extend(@, address, target)] IN
    IF ~ Supported(address) THEN [s |-> s1, ok |-> FALSE]
    ELSE [s |-> [s1 EXCEPT
                   !.future_task_sender = Buffer_push(@, FutureTask("dial", address)),
                   !.state = increase(@),
                   !.attempts = @ + 1],
          ok |-> TRUE]

spawn_listener(s, listen_address) ==
    [s EXCEPT !.sockets = @ \cup {listen_address}]


\* a SessionEvent; attempt marks the result of a dial or listen attempt that
\* dial_inner, listen_inner or Service::dial started
Event(ev, id, proto_id, public_key, address, ty, listen_address, attempt) ==
    [ev |-> ev, id |-> id, proto_id |-> proto_id, public_key |-> public_key,
     address |-> address, ty |-> ty, listen_address |-> listen_address,
     attempt |-> attempt]

\* Handling various events uploaded by the session
handle_session_event(s, e) ==
    CASE e.ev = "SessionClose" -> session_close(s, e.id, "Internal")
      [] e.ev = "HandshakeSuccess" ->
            LET s1 == IF e.ty = "Outbound" THEN [s EXCEPT !.state = decrease(@)] ELSE s IN
            IF ~ reached_max_connection_limit(s1)
            THEN session_open(s1, e.public_key, e.address, e.ty, e.listen_address)
            ELSE s1
      [] e.ev = "HandshakeError" ->
            IF e.ty = "Outbound"
            THEN handle_error(
                   [s EXCEPT !.state = decrease(@),
                             !.dial_protocols = Restrict(@, DOMAIN @ \ {e.address})],
                   "DialerError", NoId, e.address, 0, "HandshakeError")
            ELSE s
      [] e.ev = "ProtocolMessage" -> protocol_message(s, e.id, e.proto_id)
      [] e.ev = "ProtocolOpen" -> protocol_open(s, e.id, e.proto_id, "Internal")
      [] e.ev = "ProtocolClose" -> protocol_close(s, e.id, e.proto_id, "Internal")
      [] e.ev = "ProtocolSelectError" ->
            IF e.id \in DOMAIN s.sessions
            THEN handle_error(s, "ProtocolSelectError", e.id, NoAddr, e.proto_id, "")
            ELSE s
      [] e.ev = "ProtocolError" ->
            handle_error(s, "ProtocolError", e.id, NoAddr, e.proto_id, "")
      [] e.ev = "DialError" ->
            handle_error(
              [s EXCEPT !.state = decrease(@),
                        !.dial_protocols = Restrict(@, DOMAIN @ \ {e.address})],
              "DialerError", NoId, e.address, 0, "TransportError")
      [] e.ev = "ListenError" ->
            LET s1 == handle_error(s, "ListenError", NoId, e.address, 0, "TransportError") IN
            IF e.address \in s1.listens
            THEN handle_event([s1 EXCEPT !.listens = @ \ {e.address}],
                              "ListenClose", NoId, e.address)
            ELSE [s1 EXCEPT !.state = decrease(@)]
      [] e.ev = "SessionTimeout" ->
            IF e.id \in DOMAIN s.sessions
            THEN handle_error(s, "SessionTimeout", e.id, NoAddr, 0, "")
            ELSE s
      [] e.ev = "MuxerError" ->
            IF e.id \in DOMAIN s.sessions
            THEN handle_error(s, "MuxerError", e.id, NoAddr, 0, "")
            ELSE s
      [] e.ev = "ListenStart" ->
            LET s1 == handle_event(s, "ListenStarted", NoId, e.listen_address)
                s2 == [s1 EXCEPT !.listens = @ \cup {e.listen_address},
                                 !.state = decrease(@)]
            IN  spawn_listener(try_update_listens(s2), e.listen_address)
      [] e.ev = "ProtocolHandleError" ->
            Shutdown(handle_error(s, "ProtocolHandleError", NoId, NoAddr, e.proto_id, e.address.host),
                     FALSE)
      [] OTHER -> s

\* a ServiceTask with its priority
Task(task, pri, address, session_id, proto_id, target, data, quick) ==
    [task |-> task, pri |-> pri, address |-> address, session_id |-> session_id,
     proto_id |-> proto_id, target |-> target, data |-> data, quick |-> quick]
TargetAll == [kind |-> "All", ids |-> {}]
TargetSingle(id) == [kind |-> "Single", ids |-> {id}]
TargetMulti(ids) == [kind |-> "Multi", ids |-> ids]

\* Handling various tasks sent externally
handle_service_task(s, t, priority) ==
    CASE t.task = "ProtocolMessage" ->
            handle_message(s, t.target, t.proto_id, priority, t.data)
      [] t.task = "Dial" ->
            IF t.address \notin DOMAIN s.dial_protocols
            THEN LET r == dial_inner(s, t.address, t.target) IN
                 IF r.ok THEN r.s
                 ELSE handle_error(r.s, "DialerError", NoId, t.address, 0, "TransportError")
            ELSE s
      [] t.task = "Listen" ->
            IF t.address \notin s.listens
            THEN LET r == listen_inner(s, t.address) IN
                 IF r.ok THEN r.s
                 ELSE handle_error(r.s, "ListenError", NoId, t.address, 0, "TransportError")
            ELSE s
      [] t.task = "Disconnect" -> session_close(s, t.session_id, "External")
      [] t.task = "FutureTask" -> send_future_task(s, FutureTask("user", NoAddr))
      [] t.task \in {"SetProtocolNotify", "RemoveProtocolNotify"} ->
            IF t.proto_id \in DOMAIN s.service_proto_handles
            THEN distribute_to_user_level(
                   [s EXCEPT !.service_proto_handles[t.proto_id] =
                       Buffer_push(@, Item("Normal",
                           IF t.task = "SetProtocolNotify" THEN "SetNotify" ELSE "RemoveNotify",
                           0, ""))])
            ELSE s
      [] t.task \in {"SetProtocolSessionNotify", "RemoveProtocolSessionNotify"} ->
            IF <<t.session_id, t.proto_id>> \in DOMAIN s.session_proto_handles
            THEN distribute_to_user_level(
                   [s EXCEPT !.session_proto_handles[<<t.session_id, t.proto_id>>] =
                       Buffer_push(@, Item("Normal",
                           IF t.task = "SetProtocolSessionNotify" THEN "SetNotify" ELSE "RemoveNotify",
                           0, ""))])
            ELSE s
      [] t.task = "ProtocolOpen" ->
            OpenAll(s, t.session_id,
                    IF t.target.kind = "All" THEN SetToSeq(DOMAIN protocol_configs)
                    ELSE SetToSeq(t.target.ids))
      [] t.task = "ProtocolClose" -> protocol_close(s, t.session_id, t.proto_id, "External")
      [] t.task = "Shutdown" -> Shutdown(s, t.quick)
      [] OTHER -> s

\* the termination check with the listen set left out
AllEmpty_IgnoreListens(s) ==
    /\ is_shutdown(s.state)
    /\ DOMAIN s.sessions = {}
    /\ Buffer_is_empty(s.future_task_sender)

\* the termination check with the state left out
AllEmpty_IgnoreState(s) ==
    /\ s.listens = {}
    /\ DOMAIN s.sessions = {}
    /\ Buffer_is_empty(s.future_task_sender)

\* the termination check with the session map left out
AllEmpty_IgnoreSessions(s) ==
    /\ s.listens = {}
    /\ is_shutdown(s.state)
    /\ Buffer_is_empty(s.future_task_sender)

\* the termination condition of the head and the tail of poll_next
AllEmpty(s) ==
    /\ s.listens = {}
    /\ is_shutdown(s.state)
    /\ DOMAIN s.sessions = {}
    /\ Buffer_is_empty(s.future_task_sender)

\* wait_handle_poll that sends no cancel signal
wait_handle_poll_NoCancel(s) ==
    LET keep == SelectSeq(s.wait_handle, LAMBDA h : h.task \notin s.done) IN
    [s EXCEPT
       !.wait_handle = keep,
       !.ret = IF keep = <<>> THEN "ReadyNone" ELSE "Pending"]

\* wait_handle_poll that forgets every stored task
wait_handle_poll_DropAll(s) ==
    [s EXCEPT
       !.cancelled = @ \cup {s.wait_handle[i].task : i \in {j \in 1 .. Len(s.wait_handle) :
                                                              s.wait_handle[j].sender}},
       !.wait_handle = <<>>,
       !.ret = "ReadyNone"]

\* wait_handle_poll: cancel every stored task, keep the unfinished ones
wait_handle_poll(s) ==
    LET keep == SelectSeq(s.wait_handle, LAMBDA h : h.task \notin s.done) IN
    [s EXCEPT
       !.cancelled = @ \cup {s.wait_handle[i].task : i \in {j \in 1 .. Len(s.wait_handle) :
                                                              s.wait_handle[j].sender}},
       !.wait_handle = [i \in 1 .. Len(keep) |-> [sender |-> FALSE, task |-> keep[i].task]],
       !.ret = IF keep = <<>> THEN "ReadyNone" ELSE "Pending"]

\* flush_buffer that only flushes the handler buffers
flush_buffer_HandlersOnly(s) ==
    IF \/ \E p \in DOMAIN s.service_proto_handles :
             ~ Buffer_is_empty(s.service_proto_handles[p])
       \/ \E k \in DOMAIN s.session_proto_handles :
             ~ Buffer_is_empty(s.session_proto_handles[k])
    THEN distribute_to_user_level(s) ELSE s

\* flush_buffer that only flushes the session buffers
flush_buffer_SessionsOnly(s) ==
    IF \E id \in DOMAIN s.sessions : ~ Buffer_is_empty(s.sessions[id])
    THEN distribute_to_session(s) ELSE s

flush_buffer(s) ==
    LET s1 == IF \E id \in DOMAIN s.sessions : ~ Buffer_is_empty(s.sessions[id])
              THEN distribute_to_session(s) ELSE s
    IN  IF \/ \E p \in DOMAIN s1.service_proto_handles :
                 ~ Buffer_is_empty(s1.service_proto_handles[p])
           \/ \E k \in DOMAIN s1.session_proto_handles :
                 ~ Buffer_is_empty(s1.session_proto_handles[k])
        THEN distribute_to_user_level(s1) ELSE s1


\* the ServiceConfig that Service::new is given: the default frame length is
\* above the default window, and both are below 2^32
ServiceConfig_default ==
    [max_frame_length |-> U32Modulus - 1, max_stream_window_size |-> 1]

\* ------------------------------------------------------------------- state
VARIABLES
    sessions,                \* HashMap<SessionId, SessionController>
    listens,                 \* HashSet<Multiaddr>
    dial_protocols,          \* HashMap<Multiaddr, TargetProtocol>
    state,                   \* State
    next_session,            \* SessionId
    before_sends,            \* the protocol ids with a registered hook
    future_task_manager,     \* Option<FutureTaskManager>: TRUE while Some
    future_task_sender,      \* Buffer<BoxedFutureTask>
    future_tasks,            \* the tasks the FutureTaskManager holds
    service_proto_handles,   \* HashMap<ProtocolId, Buffer>
    session_proto_handles,   \* HashMap<(SessionId, ProtocolId), Buffer>
    session_event_receiver,  \* mpsc::Receiver<SessionEvent>: closed, terminated
    service_task_receiver,   \* priority_mpsc::Receiver<ServiceTask>: closed, terminated
    service_context_listens, \* the listen list published in the ServiceContext
    shutdown,                \* Arc<AtomicBool>
    wait_handle,             \* Vec<(Option<Sender>, JoinHandle)>
    pc,                      \* where poll_next stands ("idle" between polls)
    is_pending,              \* the local is_pending of poll_next
    ret,                     \* what the last poll_next returned
    calls,                   \* the ServiceHandle callbacks the last step made
    took_event,              \* the SessionEvent the last step took, if any
    took_task,               \* the ServiceTask the last step took, if any
    inits,                   \* how often each service-level handler got Init
    attempts,                \* dial/listen attempts started and not yet resolved
    sockets,                 \* the listen addresses with a running Listener
    handshakes,              \* handshakes spawned by Service::dial
    done,                    \* the spawned tasks that have finished
    cancelled,               \* the spawned tasks whose cancel signal was sent
    opened,                  \* the sessions reported by SessionOpen and not yet by SessionClose
    config                   \* ServiceConfig: max_frame_length and the yamux window

vars == <<sessions, listens, dial_protocols, state, next_session, before_sends,
          future_task_manager, future_task_sender, future_tasks, service_proto_handles,
          session_proto_handles, session_event_receiver, service_task_receiver,
          service_context_listens, shutdown, wait_handle, pc, is_pending, ret,
          calls, took_event, took_task, inits, attempts, sockets, handshakes,
          done, cancelled, opened, config>>

NoEvent == Event("None", NoId, 0, NoKey, NoAddr, "Inbound", NoAddr, FALSE)
NoTask == Task("None", "Normal", NoAddr, NoId, 0, TargetAll, "", FALSE)

\* the Service as one record (with an empty record of the step), and the
\* assignment of such a record
S == [sessions |-> sessions, listens |-> listens, dial_protocols |-> dial_protocols,
      state |-> state, next_session |-> next_session, before_sends |-> before_sends,
      future_task_manager |-> future_task_manager,
      future_task_sender |-> future_task_sender, future_tasks |-> future_tasks,
      service_proto_handles |-> service_proto_handles,
      session_proto_handles |-> session_proto_handles,
      session_event_receiver |-> session_event_receiver,
      service_task_receiver |-> service_task_receiver,
      service_context_listens |-> service_context_listens,
      shutdown |-> shutdown, wait_handle |-> wait_handle, ret |-> ret,
      calls |-> <<>>, took_event |-> NoEvent, took_task |-> NoTask,
      inits |-> inits, attempts |-> attempts, sockets |-> sockets,
      handshakes |-> handshakes, done |-> done, cancelled |-> cancelled,
      opened |-> opened, config |-> config]

\* the session ids that the callbacks cs report with an event of this kind
Reported(cs, kind) ==
    {cs[i].id : i \in {j \in 1 .. Len(cs) : cs[j].cb = "handle_event" /\ cs[j].kind = kind}}

Becomes(s) ==
    /\ sessions' = s.sessions
    /\ listens' = s.listens
    /\ dial_protocols' = s.dial_protocols
    /\ state' = s.state
    /\ next_session' = s.next_session
    /\ before_sends' = s.before_sends
    /\ future_task_manager' = s.future_task_manager
    /\ future_task_sender' = s.future_task_sender
    /\ future_tasks' = s.future_tasks
    /\ service_proto_handles' = s.service_proto_handles
    /\ session_proto_handles' = s.session_proto_handles
    /\ session_event_receiver' = s.session_event_receiver
    /\ service_task_receiver' = s.service_task_receiver
    /\ service_context_listens' = s.service_context_listens
    /\ shutdown' = s.shutdown
    /\ wait_handle' = s.wait_handle
    /\ ret' = s.ret
    /\ calls' = s.calls
    /\ took_event' = s.took_event
    /\ took_task' = s.took_task
    /\ inits' = s.inits
    /\ attempts' = s.attempts
    /\ sockets' = s.sockets
    /\ handshakes' = s.handshakes
    /\ done' = s.done
    /\ cancelled' = s.cancelled
    /\ opened' = (s.opened \cup Reported(s.calls, "SessionOpen"))
                    \ Reported(s.calls, "SessionClose")
    /\ config' = s.config

\* Service::new
Init ==
    /\ sessions = << >>
    /\ listens = {}
    /\ dial_protocols = << >>
    /\ \E forever \in BOOLEAN : state = State_new(forever)
    /\ next_session = 0
    /\ before_sends = {}
    /\ future_task_manager = TRUE
    /\ future_task_sender = Buffer_new
    /\ future_tasks = <<>>
    /\ service_proto_handles = << >>
    /\ session_proto_handles = << >>
    /\ session_event_receiver = [closed |-> FALSE, terminated |-> FALSE]
    /\ service_task_receiver = [closed |-> FALSE, terminated |-> FALSE]
    /\ service_context_listens = {}
    /\ shutdown = FALSE
    /\ wait_handle = <<>>
    /\ pc = "idle"
    /\ is_pending = FALSE
    /\ ret = "None"
    /\ calls = <<>>
    /\ took_event = NoEvent
    /\ took_task = NoTask
    /\ inits = [p \in ProtocolIds |-> 0]
    /\ attempts = 0
    /\ sockets = {}
    /\ handshakes = <<>>
    /\ done = {}
    /\ cancelled = {}
    /\ opened = {}
    /\ config = ServiceConfig_default

\* ------------------------------------------------- the senders of events
HandshakeResults(address, ty, listen_address, attempt) ==
    {Event("HandshakeSuccess", NoId, 0, k, address, ty, listen_address, attempt) :
        k \in Keys \cup {NoKey}}
    \cup {Event("HandshakeError", NoId, 0, NoKey, address, ty, listen_address, attempt)}

\* The events that can be at the head of the session-event channel, each
\* with the state of its sender after the send:
\*   the result of the oldest task of the FutureTaskManager (a dial or listen
\*   attempt), the result of a handshake spawned by Service::dial, what a
\*   running Listener produces (an inbound handshake result, or ListenError
\*   when it fails and ends), what a Session task reports (SessionClose when
\*   it ends), and the ProtocolHandleError of a handler adapter that fails.
FromFutureTask(s) ==
    IF s.future_tasks = <<>> THEN {}
    ELSE LET task == Head(s.future_tasks)
             s1 == [s EXCEPT !.future_tasks = Tail(@)]
         IN  IF task.kind = "dial"
             THEN {<<e, s1>> : e \in HandshakeResults(task.address, "Outbound", NoAddr, TRUE)
                                 \cup {Event("DialError", NoId, 0, NoKey, task.address,
                                             "Outbound", NoAddr, TRUE)}}
             ELSE IF task.kind = "listen"
             THEN {<<Event("ListenError", NoId, 0, NoKey, task.address, "Inbound", NoAddr, TRUE),
                     s1>>}
                  \cup (IF task.address \notin s.sockets
                        THEN {<<Event("ListenStart", NoId, 0, NoKey, NoAddr, "Inbound",
                                      task.address, TRUE), s1>>}
                        ELSE {})
             ELSE {}

FromHandshake(s) ==
    IF s.handshakes = <<>> THEN {}
    ELSE {<<e, [s EXCEPT !.handshakes = Tail(@)]>> :
            e \in HandshakeResults(Head(s.handshakes), "Outbound", NoAddr, TRUE)}

FromListener(s) ==
    UNION {
      {<<e, s>> : e \in HandshakeResults(RemoteAddr, "Inbound", a, FALSE)}
      \cup {<<Event("ListenError", NoId, 0, NoKey, a, "Inbound", NoAddr, FALSE),
              [s EXCEPT !.sockets = @ \ {a}]>>}
      : a \in s.sockets}

\* reports: what the Session tasks report besides SessionClose, each a pair
\* of the event and the protocol id
FromSession(s, reports) ==
    UNION {
      {<<Event("SessionClose", id, 0, NoKey, NoAddr, s.sessions[id].ty, NoAddr, FALSE), s>>}
      \cup (IF s.sessions[id].alive
            THEN {<<Event(r[1], id, r[2], NoKey, NoAddr, s.sessions[id].ty, NoAddr, FALSE), s>> :
                    r \in reports}
            ELSE {})
      : id \in DOMAIN s.sessions}

FromHandler(s) ==
    {<<Event("ProtocolHandleError", NoId, p, NoKey, NoAddr, "Inbound", NoAddr, FALSE),
       [s EXCEPT !.service_proto_handles[p].alive = FALSE,
                 !.done = @ \cup {<<"service_proto", p>>}]>> :
       p \in {q \in DOMAIN s.service_proto_handles : s.service_proto_handles[q].alive}}
    \cup
    {<<Event("ProtocolHandleError", k[1], k[2], NoKey, NoAddr, "Inbound", NoAddr, FALSE),
       [s EXCEPT !.session_proto_handles[k].alive = FALSE]>> :
       k \in {q \in DOMAIN s.session_proto_handles : s.session_proto_handles[q].alive}}

\* the summed lengths of the three buffer classes
ServiceLevelHeld(s) ==
    SumOver([p \in DOMAIN s.service_proto_handles |->
               Buffer_len(s.service_proto_handles[p])], DOMAIN s.service_proto_handles)
SessionLevelHeld(s) ==
    SumOver([k \in DOMAIN s.session_proto_handles |->
               Buffer_len(s.session_proto_handles[k])], DOMAIN s.session_proto_handles)
HandlerHeld(s) == ServiceLevelHeld(s) + SessionLevelHeld(s)
OutboundHeld(s) ==
    SumOver([id \in DOMAIN s.sessions |-> Buffer_len(s.sessions[id])], DOMAIN s.sessions)

\* The environment is kept finite: while the handler buffers hold MaxHeld
\* events no listen event arrives, and while the session buffers hold MaxHeld
\* items no handler fails.
FromAttempts(s) ==
    {x \in FromFutureTask(s) \cup FromListener(s) :
        x[1].ev \in {"ListenStart", "ListenError"} => HandlerHeld(s) < MaxHeld}
    \cup FromHandshake(s)
FromFailures(s) == {x \in FromHandler(s) : OutboundHeld(s) < MaxHeld}

ServiceHeld == ServiceLevelHeld(S)
SessionHeld == SessionLevelHeld(S)
SendHeld == OutboundHeld(S)

\* the read-buffer check at the head of session_poll
RecvBufferExceeded_ServiceOnly(s) == ServiceLevelHeld(s) > recv_event_size
RecvBufferExceeded(s) ==
    ServiceLevelHeld(s) > recv_event_size \/ SessionLevelHeld(s) > recv_event_size

\* the write-buffer check at the head of user_task_poll
SendBufferExceeded_Never(s) == FALSE
SendBufferExceeded(s) == OutboundHeld(s) > send_event_size

\* the tasks of a workload that can be at the head of the user task channel
Sendable(tasks) ==
    {t \in tasks :
        /\ t.task \in {"Dial", "Listen"} => attempts < MaxPending
        /\ t.task \in {"SetProtocolNotify", "SetProtocolSessionNotify"}
              => ServiceHeld + SessionHeld < MaxHeld
        /\ t.task = "FutureTask"
              => Len(future_task_sender.buffer) + Len(future_tasks) < MaxPending}

\* ------------------------------------------------------------- poll_next
\* a head of poll_next that instantiates the handles in every round
PollStart_InitEveryPoll ==
    /\ pc = "idle"
    /\ IF AllEmpty(S)
       THEN /\ Becomes(wait_handle_poll([S EXCEPT !.shutdown = TRUE]))
            /\ pc' = "idle"
       ELSE /\ Becomes(init_proto_handles([S EXCEPT !.future_task_manager = FALSE]))
            /\ pc' = "flush"
    /\ is_pending' = FALSE

\* head of poll_next without the termination check
PollStart_NoHeadCheck ==
    /\ pc = "idle"
    /\ Becomes(IF future_task_manager
               THEN init_proto_handles(
                      [S EXCEPT !.future_task_manager = FALSE,
                                !.wait_handle = Append(@,
                                    [sender |-> TRUE, task |-> <<"future_task_manager", 0>>])])
               ELSE S)
    /\ pc' = "flush"
    /\ is_pending' = FALSE

\* head of poll_next: the termination check, then the one-time init
PollStart ==
    /\ pc = "idle"
    /\ IF AllEmpty(S)
       THEN /\ Becomes(wait_handle_poll([S EXCEPT !.shutdown = TRUE]))
            /\ pc' = "idle"
       ELSE /\ Becomes(IF future_task_manager
                       THEN init_proto_handles(
                              [S EXCEPT !.future_task_manager = FALSE,
                                        !.wait_handle = Append(@,
                                            [sender |-> TRUE, task |-> <<"future_task_manager", 0>>])])
                       ELSE S)
            /\ pc' = "flush"
    /\ is_pending' = FALSE

FlushBuffer ==
    /\ pc = "flush"
    /\ Becomes(flush_buffer(S))
    /\ pc' = "listens"
    /\ UNCHANGED is_pending

UpdateListens ==
    /\ pc = "listens"
    /\ Becomes(try_update_listens(S))
    /\ pc' = "session"
    /\ UNCHANGED is_pending

\* session_poll; senders are the events the workload's senders can have put
\* at the head of the channel, each with its sender's state after the send
SessionPoll(senders) ==
    /\ pc = "session"
    /\ IF RecvBufferExceeded(S)
       THEN Becomes(S) /\ is_pending' = TRUE /\ pc' = "user"
       ELSE IF session_event_receiver.terminated
       THEN Becomes(S) /\ is_pending' = FALSE /\ pc' = "user"
       ELSE IF session_event_receiver.closed
       THEN Becomes(S) /\ is_pending' = FALSE /\ pc' = "unreachable"
       ELSE \/ \E x \in senders :
                 /\ Becomes(handle_session_event(
                              [x[2] EXCEPT !.took_event = x[1],
                                           !.attempts = IF x[1].attempt THEN @ - 1 ELSE @],
                              x[1]))
                 /\ is_pending' = FALSE
                 /\ pc' = IF state'.pending < 0 THEN "overflow" ELSE "user"
            \/ Becomes(S) /\ is_pending' = TRUE /\ pc' = "user"

\* user_task_poll, with the tasks the users of the workload send
UserTaskPoll(tasks) ==
    /\ pc = "user"
    /\ pc' = "end"
    /\ IF SendBufferExceeded(S)
       THEN Becomes(S) /\ is_pending' = is_pending
       ELSE IF service_task_receiver.terminated
       THEN Becomes(S) /\ is_pending' = FALSE
       ELSE IF service_task_receiver.closed
       THEN Becomes([S EXCEPT !.service_task_receiver.terminated = TRUE]) /\ is_pending' = FALSE
       ELSE \/ \E t \in Sendable(tasks) :
                 /\ Becomes(handle_service_task([S EXCEPT !.took_task = t], t, t.pri))
                 /\ is_pending' = FALSE
            \/ Becomes(S) /\ is_pending' = is_pending

\* tail of poll_next that asks for the next round whatever the pollers said
PollEnd_AlwaysReady ==
    /\ pc = "end"
    /\ pc' = "idle"
    /\ is_pending' = FALSE
    /\ LET s1 == send_pending_task(S) IN
       IF AllEmpty(s1)
       THEN Becomes(wait_handle_poll([s1 EXCEPT !.shutdown = TRUE]))
       ELSE Becomes([s1 EXCEPT !.ret = "ReadySome"])

\* tail of poll_next: send_pending_task, the second termination check, return
PollEnd ==
    /\ pc = "end"
    /\ pc' = "idle"
    /\ is_pending' = FALSE
    /\ LET s1 == send_pending_task(S) IN
       IF AllEmpty(s1)
       THEN Becomes(wait_handle_poll([s1 EXCEPT !.shutdown = TRUE]))
       ELSE Becomes([s1 EXCEPT !.ret = IF is_pending THEN "Pending" ELSE "ReadySome"])

\* ----------------------------------------------------- the public methods
\* Service::listen and Service::dial take &mut self: they are called before
\* the Service is handed to the runtime, that is before the first poll.
NotPolled == pc = "idle" /\ future_task_manager /\ ~ shutdown

\* Service::listen, when the transport binds the address
ServiceListen(address) ==
    /\ NotPolled
    /\ address \notin sockets
    /\ Becomes(spawn_listener(
                 [handle_event(S, "ListenStarted", NoId, address)
                    EXCEPT !.listens = @ \cup {address}],
                 address))
    /\ UNCHANGED <<pc, is_pending>>

\* Service::dial, when the transport connects: the handshake is spawned
ServiceDial(address) ==
    /\ NotPolled
    /\ attempts < MaxPending
    /\ Becomes([S EXCEPT !.handshakes = Append(@, address),
                         !.dial_protocols = Extend(@, address, TargetAll),
                         !.state = increase(@),
                         !.attempts = @ + 1])
    /\ UNCHANGED <<pc, is_pending>>

\* Service::yamux_config: panics when max_frame_length < the window
yamux_config(window) ==
    /\ NotPolled
    /\ IF (config.max_frame_length % U32Modulus) >= window
       THEN Becomes([S EXCEPT !.config.max_stream_window_size = window]) /\ pc' = pc
       ELSE Becomes(S) /\ pc' = "panic"
    /\ UNCHANGED is_pending

\* max_frame_length that stores the size without the assertion
max_frame_length_Unchecked(size) ==
    /\ NotPolled
    /\ Becomes([S EXCEPT !.config.max_frame_length = size]) /\ pc' = pc
    /\ UNCHANGED is_pending

\* Service::max_frame_length: panics when size < the window
max_frame_length(size) ==
    /\ NotPolled
    /\ IF (size % U32Modulus) >= config.max_stream_window_size
       THEN Becomes([S EXCEPT !.config.max_frame_length = size]) /\ pc' = pc
       ELSE Becomes(S) /\ pc' = "panic"
    /\ UNCHANGED is_pending

\* --------------------------------------------------------- the other tasks
\* The other tasks act between two rounds of poll_next: a round reads each
\* channel at most once, so it is taken as one block.
Between == pc = "idle" /\ ~ shutdown

\* the FutureTaskManager finishes a task the user submitted
FutureTaskDone ==
    /\ Between
    /\ future_tasks # <<>>
    /\ Head(future_tasks).kind = "user"
    /\ Becomes([S EXCEPT !.future_tasks = Tail(@)])
    /\ UNCHANGED <<pc, is_pending>>

\* a Session task stops taking the items of its channel, and resumes
SessionStall(id) ==
    /\ Between
    /\ id \in DOMAIN sessions
    /\ sessions[id].alive /\ sessions[id].room = Prompt
    /\ Becomes([S EXCEPT !.sessions[id].room = ChanCap])
    /\ UNCHANGED <<pc, is_pending>>

SessionResume(id) ==
    /\ Between
    /\ id \in DOMAIN sessions
    /\ sessions[id].alive /\ sessions[id].room # Prompt
    /\ Becomes([S EXCEPT !.sessions[id].room = Prompt])
    /\ UNCHANGED <<pc, is_pending>>

\* the Session task ends: it drops its receiver, SessionClose is on its way
SessionGone(id) ==
    /\ Between
    /\ id \in DOMAIN sessions
    /\ sessions[id].alive
    /\ Becomes([S EXCEPT !.sessions[id].alive = FALSE])
    /\ UNCHANGED <<pc, is_pending>>

\* a service-level handler adapter stops taking events, and resumes
ServiceHandlerStall(p) ==
    /\ Between
    /\ p \in DOMAIN service_proto_handles
    /\ service_proto_handles[p].alive /\ service_proto_handles[p].room = Prompt
    /\ Becomes([S EXCEPT !.service_proto_handles[p].room = ChanCap])
    /\ UNCHANGED <<pc, is_pending>>

ServiceHandlerResume(p) ==
    /\ Between
    /\ p \in DOMAIN service_proto_handles
    /\ service_proto_handles[p].alive /\ service_proto_handles[p].room # Prompt
    /\ Becomes([S EXCEPT !.service_proto_handles[p].room = Prompt])
    /\ UNCHANGED <<pc, is_pending>>

\* a session-level handler adapter stops taking events, and resumes
SessionHandlerStall(k) ==
    /\ Between
    /\ k \in DOMAIN session_proto_handles
    /\ session_proto_handles[k].alive /\ session_proto_handles[k].room = Prompt
    /\ Becomes([S EXCEPT !.session_proto_handles[k].room = ChanCap])
    /\ UNCHANGED <<pc, is_pending>>

SessionHandlerResume(k) ==
    /\ Between
    /\ k \in DOMAIN session_proto_handles
    /\ session_proto_handles[k].alive /\ session_proto_handles[k].room # Prompt
    /\ Becomes([S EXCEPT !.session_proto_handles[k].room = Prompt])
    /\ UNCHANGED <<pc, is_pending>>

\* a handler adapter dies without a report
ServiceHandlerDie(p) ==
    /\ Between
    /\ SendHeld < MaxHeld
    /\ p \in DOMAIN service_proto_handles
    /\ service_proto_handles[p].alive
    /\ Becomes([S EXCEPT !.service_proto_handles[p].alive = FALSE,
                         !.done = @ \cup {<<"service_proto", p>>}])
    /\ UNCHANGED <<pc, is_pending>>

SessionHandlerDie(k) ==
    /\ Between
    /\ SendHeld < MaxHeld
    /\ k \in DOMAIN session_proto_handles
    /\ session_proto_handles[k].alive
    /\ Becomes([S EXCEPT !.session_proto_handles[k].alive = FALSE])
    /\ UNCHANGED <<pc, is_pending>>

\* a cancelled task finishes
TaskExit(task) ==
    /\ pc = "idle"
    /\ task \in cancelled \ done
    /\ Becomes([S EXCEPT !.done = @ \cup {task}])
    /\ UNCHANGED <<pc, is_pending>>

\* ------------------------------------------------------------- workloads
\* The connection workload: users dial, listen, disconnect and shut down;
\* peers connect, fail and leave; every receiver keeps up with the Service.
Senders(s) == FromAttempts(s) \cup FromSession(s, {<<"MuxerError", 0>>})

UserTasks ==
    {Task("Dial", "High", a, NoId, 0, TargetAll, "", FALSE) : a \in DialAddrs}
    \cup {Task("Listen", "High", a, NoId, 0, TargetAll, "", FALSE) : a \in ListenAddrs}
    \cup {Task("Disconnect", "High", NoAddr, 1, 0, TargetAll, "", FALSE)}
    \cup {Task("Shutdown", "High", NoAddr, NoId, 0, TargetAll, "", q) : q \in BOOLEAN}

Next ==
    \/ PollStart
    \/ FlushBuffer
    \/ UpdateListens
    \/ SessionPoll(Senders(S))
    \/ UserTaskPoll(UserTasks)
    \/ PollEnd
    \/ \E a \in ListenAddrs : ServiceListen(a)
    \/ \E a \in DialAddrs : ServiceDial(a)
    \/ \E task \in cancelled : TaskExit(task)

Spec == Init /\ [][Next]_vars

\* The flow workload: one listener, one peer at a time, whose session sends
\* and receives protocol messages; the Session task and the handler adapters
\* may stop taking what the Service sends, resume, or fail.
FromPeer(s) ==
    IF DOMAIN s.sessions # {} THEN {}
    ELSE {<<Event("HandshakeSuccess", NoId, 0, NoKey, RemoteAddr, "Inbound", a, FALSE), s>> :
            a \in s.sockets}

FlowSenders(s) ==
    FromPeer(s)
    \cup FromSession(s, {<<"ProtocolMessage", 1>>, <<"ProtocolMessage", 2>>})
    \cup FromFailures(s)

FlowTasks ==
    {Task("ProtocolMessage", "Normal", NoAddr, NoId, 1, TargetAll, "d", FALSE),
     Task("Disconnect", "High", NoAddr, 1, 0, TargetAll, "", FALSE),
     Task("FutureTask", "Normal", NoAddr, NoId, 0, TargetAll, "", FALSE),
     Task("SetProtocolNotify", "High", NoAddr, NoId, 1, TargetAll, "", FALSE),
     Task("SetProtocolSessionNotify", "High", NoAddr, 1, 2, TargetAll, "", FALSE)}

NextFlow ==
    \/ PollStart
    \/ FlushBuffer
    \/ UpdateListens
    \/ SessionPoll(FlowSenders(S))
    \/ UserTaskPoll(FlowTasks)
    \/ PollEnd
    \/ \E a \in ListenAddrs : ServiceListen(a)
    \/ FutureTaskDone
    \/ \E id \in SessionIds : SessionStall(id)
    \/ \E id \in SessionIds : SessionResume(id)
    \/ \E id \in SessionIds : SessionGone(id)
    \/ \E p \in ProtocolIds : ServiceHandlerStall(p)
    \/ \E p \in ProtocolIds : ServiceHandlerResume(p)
    \/ \E k \in SessionIds \X ProtocolIds : SessionHandlerStall(k)
    \/ \E k \in SessionIds \X ProtocolIds : SessionHandlerResume(k)
    \/ \E p \in ProtocolIds : ServiceHandlerDie(p)
    \/ \E k \in SessionIds \X ProtocolIds : SessionHandlerDie(k)
    \/ \E task \in cancelled : TaskExit(task)

SpecFlow == Init /\ [][NextFlow]_vars

\* The error workload: dial and listen attempts fail, sessions report the
\* errors of their protocols, their muxer and their timeout besides the
\* opening, the messages and the closing of both protocols, and the Session
\* tasks and handler adapters may stop taking what the Service sends; nobody
\* shuts the Service down and no handler adapter dies.
ErrorSenders(s) ==
    FromPeer(s)
    \cup {x \in FromAttempts(s) :
            x[1].ev \in {"DialError", "HandshakeError", "ListenError", "ListenStart"}}
    \cup FromSession(s, {<<"ProtocolSelectError", 1>>, <<"ProtocolError", 1>>,
                         <<"SessionTimeout", 0>>, <<"MuxerError", 0>>}
                        \cup ({"ProtocolOpen", "ProtocolMessage", "ProtocolClose"}
                              \X ProtocolIds))

ErrorTasks ==
    {Task("Dial", "High", a, NoId, 0, TargetAll, "", FALSE) : a \in DialAddrs}
    \cup {Task("Listen", "High", a, NoId, 0, TargetAll, "", FALSE) : a \in ListenAddrs}
    \cup {Task("ProtocolMessage", "Normal", NoAddr, NoId, 1, TargetAll, "d", FALSE)}

NextError ==
    \/ PollStart
    \/ FlushBuffer
    \/ UpdateListens
    \/ SessionPoll(ErrorSenders(S))
    \/ UserTaskPoll(ErrorTasks)
    \/ PollEnd
    \/ \E a \in ListenAddrs : ServiceListen(a)
    \/ \E id \in SessionIds : SessionStall(id)
    \/ \E id \in SessionIds : SessionResume(id)
    \/ \E p \in ProtocolIds : ServiceHandlerStall(p)
    \/ \E p \in ProtocolIds : ServiceHandlerResume(p)
    \/ \E task \in cancelled : TaskExit(task)

SpecError == Init /\ [][NextError]_vars

\* The recovery workload: a listener starts and fails, one peer at a time
\* connects, closes the protocol with the session-level handle and leaves,
\* the user sets notifies; the handler adapters stop taking their events and
\* resume.
RecoverySenders(s) ==
    FromPeer(s)
    \cup {x \in FromAttempts(s) : x[1].ev \in {"ListenError", "ListenStart"}}
    \cup FromSession(s, {<<"ProtocolClose", 2>>})

RecoveryTasks ==
    {Task("Listen", "High", a, NoId, 0, TargetAll, "", FALSE) : a \in ListenAddrs}
    \cup {Task("SetProtocolNotify", "High", NoAddr, NoId, 1, TargetAll, "", FALSE),
          Task("SetProtocolSessionNotify", "High", NoAddr, 1, 2, TargetAll, "", FALSE)}

NextRecovery ==
    \/ PollStart
    \/ FlushBuffer
    \/ UpdateListens
    \/ SessionPoll(RecoverySenders(S))
    \/ UserTaskPoll(RecoveryTasks)
    \/ PollEnd
    \/ \E a \in ListenAddrs : ServiceListen(a)
    \/ \E p \in ProtocolIds : ServiceHandlerStall(p)
    \/ \E p \in ProtocolIds : ServiceHandlerResume(p)
    \/ \E k \in SessionIds \X ProtocolIds : SessionHandlerStall(k)
    \/ \E k \in SessionIds \X ProtocolIds : SessionHandlerResume(k)

\* The Service task is polled again after a round that returned
\* Ready(Some(())), and after a wake-up: a try_send that found a channel full
\* leaves the task's waker with the channel, and the receiver wakes it when
\* it takes an item.
Woken ==
    \/ ret \in {"None", "ReadySome"}
    \/ \E p \in DOMAIN service_proto_handles :
          /\ service_proto_handles[p].buffer # <<>>
          /\ service_proto_handles[p].alive /\ service_proto_handles[p].room # 0
    \/ \E k \in DOMAIN session_proto_handles :
          /\ session_proto_handles[k].buffer # <<>>
          /\ session_proto_handles[k].alive /\ session_proto_handles[k].room # 0

\* poll_next is one call: a round that has started runs to its end (or to
\* the panic of the unreachable arm or of the pending counter)
RoundEnds == []<>(pc \in {"idle", "unreachable", "overflow"})

\* the recovery workload with a scheduler that polls the task it has woken
SpecRecovery ==
    Init /\ [][NextRecovery]_vars /\ WF_vars(PollStart /\ Woken) /\ RoundEnds

\* The shutdown workload: a listener runs, the user dials and asks for the
\* graceful shutdown, peers without a key connect and leave.
ShutdownSenders(s) ==
    {x \in FromAttempts(s) : x[1].public_key = NoKey} \cup FromSession(s, {})

ShutdownTasks ==
    {Task("Dial", "High", a, NoId, 0, TargetAll, "", FALSE) : a \in DialAddrs}
    \cup {Task("Shutdown", "High", NoAddr, NoId, 0, TargetAll, "", FALSE)}

NextShutdown ==
    \/ PollStart
    \/ FlushBuffer
    \/ UpdateListens
    \/ SessionPoll(ShutdownSenders(S))
    \/ UserTaskPoll(ShutdownTasks)
    \/ PollEnd
    \/ \E a \in ListenAddrs : ServiceListen(a)
    \/ \E task \in cancelled : TaskExit(task)

\* the shutdown workload with a scheduler that polls the Service task again
\* (a session event, a user task and the end of a stored task wake it) and
\* with stored tasks that end once their cancel signal is sent
SpecShutdown ==
    /\ Init /\ [][NextShutdown]_vars
    /\ WF_vars(PollStart)
    /\ RoundEnds
    /\ WF_vars(\E task \in cancelled : TaskExit(task))

\* The listen workload: two listen addresses, started before the first poll
\* or by Listen tasks, Listeners that fail, one peer, handlers that stall or
\* end.
TwoListenAddrs == ListenAddrs \cup {Addr("l2", NoPeer)}

ListenSenders(s) ==
    FromPeer(s)
    \cup {x \in FromAttempts(s) : x[1].ev \in {"ListenError", "ListenStart"}}

ListenTasks ==
    {Task("Listen", "High", a, NoId, 0, TargetAll, "", FALSE) : a \in TwoListenAddrs}

NextListen ==
    \/ PollStart
    \/ FlushBuffer
    \/ UpdateListens
    \/ SessionPoll(ListenSenders(S))
    \/ UserTaskPoll(ListenTasks)
    \/ PollEnd
    \/ \E a \in TwoListenAddrs : ServiceListen(a)
    \/ \E p \in ProtocolIds : ServiceHandlerStall(p)
    \/ \E k \in SessionIds \X ProtocolIds : SessionHandlerStall(k)
    \/ \E p \in ProtocolIds : ServiceHandlerDie(p)
    \/ \E k \in SessionIds \X ProtocolIds : SessionHandlerDie(k)

SpecListen == Init /\ [][NextListen]_vars

\* The routing workload: peers connect through one Listener and leave,
\* sessions stall, the user sends messages of both priorities and protocols
\* to one, several and all sessions, session 0 never existing.
RouteSenders(s) ==
    {x \in FromListener(s) : x[1].ev = "HandshakeSuccess" /\ x[1].public_key # NoKey}
    \cup FromSession(s, {})

RouteTargets ==
    {TargetAll, TargetSingle(0), TargetSingle(1), TargetMulti({0, 2}), TargetMulti({1, 2})}

RouteTasks ==
    {Task("ProtocolMessage", pri, NoAddr, NoId, p, target, "d", FALSE) :
        pri \in {"High", "Normal"}, p \in ProtocolIds, target \in RouteTargets}

NextRoute ==
    \/ PollStart
    \/ FlushBuffer
    \/ UpdateListens
    \/ SessionPoll(RouteSenders(S))
    \/ UserTaskPoll(RouteTasks)
    \/ PollEnd
    \/ \E a \in ListenAddrs : ServiceListen(a)
    \/ \E id \in SessionIds : SessionStall(id)
    \/ \E id \in SessionIds : SessionResume(id)

SpecRoute == Init /\ [][NextRoute]_vars

\* The attempt workload: the user sends Dial and Listen tasks for an address
\* the transport takes and for one it refuses, the attempts report their
\* results in any order, sessions close.
AttemptSenders(s) == FromAttempts(s) \cup FromSession(s, {})

AttemptTasks ==
    {Task("Dial", "High", a, NoId, 0, target, "", FALSE) :
        a \in DialAddrs \cup {BadAddr}, target \in {TargetAll, TargetSingle(1)}}
    \cup {Task("Listen", "High", a, NoId, 0, TargetAll, "", FALSE) :
            a \in ListenAddrs \cup {BadAddr}}

NextAttempt ==
    \/ PollStart
    \/ FlushBuffer
    \/ UpdateListens
    \/ SessionPoll(AttemptSenders(S))
    \/ UserTaskPoll(AttemptTasks)
    \/ PollEnd

SpecAttempt == Init /\ [][NextAttempt]_vars

\* The stop workload: a listener, peers with keys, Session tasks that stall
\* and resume, and users that send messages and either kind of Shutdown.
StopTasks ==
    {Task("ProtocolMessage", "Normal", NoAddr, NoId, 1, TargetAll, "d", FALSE)}
    \cup {Task("Shutdown", "High", NoAddr, NoId, 0, TargetAll, "", q) : q \in BOOLEAN}

NextStop ==
    \/ PollStart
    \/ FlushBuffer
    \/ UpdateListens
    \/ SessionPoll(RouteSenders(S))
    \/ UserTaskPoll(StopTasks)
    \/ PollEnd
    \/ \E a \in ListenAddrs : ServiceListen(a)
    \/ \E id \in SessionIds : SessionStall(id)
    \/ \E id \in SessionIds : SessionResume(id)

SpecStop == Init /\ [][NextStop]_vars

\* The stale workload: besides the peers of the routing workload, Session
\* tasks whose session the Service no longer has still report, and users
\* name sessions that are open and sessions that are not.
FromGone(s) ==
    {<<Event(ev, id, 0, NoKey, NoAddr, "Inbound", NoAddr, FALSE), s>> :
        ev \in {"SessionClose", "SessionTimeout", "MuxerError"},
        id \in SessionIds \ DOMAIN s.sessions}
    \cup {<<Event(ev, id, p, NoKey, NoAddr, "Inbound", NoAddr, FALSE), s>> :
            ev \in {"ProtocolOpen", "ProtocolMessage", "ProtocolClose", "ProtocolSelectError"},
            id \in SessionIds \ DOMAIN s.sessions, p \in ProtocolIds}

StaleSenders(s) == RouteSenders(s) \cup FromGone(s)

StaleTasks ==
    UNION {{Task("Disconnect", "High", NoAddr, id, 0, TargetAll, "", FALSE),
            Task("ProtocolOpen", "High", NoAddr, id, 0, TargetAll, "", FALSE),
            Task("ProtocolClose", "High", NoAddr, id, 1, TargetAll, "", FALSE),
            Task("ProtocolMessage", "Normal", NoAddr, NoId, 1, TargetSingle(id), "d", FALSE)} :
           id \in SessionIds}

NextStale ==
    \/ PollStart
    \/ FlushBuffer
    \/ UpdateListens
    \/ SessionPoll(StaleSenders(S))
    \/ UserTaskPoll(StaleTasks)
    \/ PollEnd
    \/ \E a \in ListenAddrs : ServiceListen(a)
    \/ \E id \in SessionIds : SessionStall(id)
    \/ \E id \in SessionIds : SessionResume(id)

SpecStale == Init /\ [][NextStale]_vars

\* The dial workload: the owner dials and listens before the first poll, the
\* user sends Dial, Listen and either kind of Shutdown, every handshake
\* (of a dial attempt, of Service::dial, of the Listener) succeeds with a
\* public key, sessions close, cancelled tasks end.
DialSenders(s) ==
    {x \in FromFutureTask(s) \cup FromHandshake(s) \cup FromListener(s) :
        x[1].ev = "HandshakeSuccess" /\ x[1].public_key # NoKey}
    \cup FromSession(s, {})

DialTasks ==
    {Task("Dial", "High", a, NoId, 0, TargetAll, "", FALSE) : a \in DialAddrs}
    \cup {Task("Listen", "High", a, NoId, 0, TargetAll, "", FALSE) : a \in ListenAddrs}
    \cup {Task("Shutdown", "High", NoAddr, NoId, 0, TargetAll, "", q) : q \in BOOLEAN}

NextDial ==
    \/ PollStart
    \/ FlushBuffer
    \/ UpdateListens
    \/ SessionPoll(DialSenders(S))
    \/ UserTaskPoll(DialTasks)
    \/ PollEnd
    \/ \E a \in ListenAddrs : ServiceListen(a)
    \/ \E a \in DialAddrs : ServiceDial(a)
    \/ \E task \in cancelled : TaskExit(task)

SpecDial == Init /\ [][NextDial]_vars

\* The close workload: one listener, one peer at a time whose session sends
\* messages of the protocol with the service-level handle, a user that
\* disconnects the session and sets the notify of its session-level handle,
\* Session tasks that stall and resume, handler adapters that fail with a
\* report, session-level adapters that stall or die without one.
CloseTasks ==
    {Task("Disconnect", "High", NoAddr, 1, 0, TargetAll, "", FALSE),
     Task("SetProtocolSessionNotify", "High", NoAddr, 1, 2, TargetAll, "", FALSE)}

NextClose ==
    \/ PollStart
    \/ FlushBuffer
    \/ UpdateListens
    \/ SessionPoll(FromPeer(S) \cup FromSession(S, {<<"ProtocolMessage", 1>>})
                   \cup FromFailures(S))
    \/ UserTaskPoll(CloseTasks)
    \/ PollEnd
    \/ \E a \in ListenAddrs : ServiceListen(a)
    \/ \E id \in SessionIds : SessionStall(id)
    \/ \E id \in SessionIds : SessionResume(id)
    \/ \E k \in SessionIds \X ProtocolIds : SessionHandlerStall(k)
    \/ \E k \in SessionIds \X ProtocolIds : SessionHandlerDie(k)

SpecClose == Init /\ [][NextClose]_vars

\* The configuration workload: the owner of the Service calls the two
\* configuration methods, in any order and with any values, before the
\* Service runs.
NextConfig ==
    \/ \E window \in 0 .. (U32Modulus - 1) : yamux_config(window)
    \/ \E size \in 0 .. (UsizeModulus - 1) : max_frame_length(size)

SpecConfig == Init /\ [][NextConfig]_vars

\* ------------------------------------------------------------ properties
\* the callbacks of a step that report kind for the session id
CallsOf(cs, kind, id) == {i \in 1 .. Len(cs) : cs[i].kind = kind /\ cs[i].id = id}
\* the callbacks of a step that report kind
CallsOfKind(cs, kind) == {i \in 1 .. Len(cs) : cs[i].kind = kind}

\* C1: outbound backpressure. When user-task polling starts with more than
\* send_event_size items held in the session buffers, the step takes no
\* ServiceTask, leaves the poll result of the round as it was (Pending) and
\* changes no session; a task is only ever taken with the sum at or below
\* the threshold.
C1_OutboundBackpressure ==
    [][/\ (pc = "user" /\ SendHeld > send_event_size)
            => /\ took_task' = NoTask
               /\ calls' = <<>>
               /\ is_pending' = is_pending
               /\ UNCHANGED <<sessions, state, listens, service_task_receiver>>
       /\ took_task' # NoTask => (pc = "user" /\ SendHeld <= send_event_size)]_vars

\* a user-task poll was refused with more than send_event_size items held
C1_Witness == pc = "end" /\ took_task = NoTask /\ SendHeld > send_event_size

\* C2: inbound backpressure. When session-event polling starts with more
\* than recv_event_size events held in the service-level handler buffers, or
\* in the session-level handler buffers, the step takes no SessionEvent and
\* session_poll is Pending; an event is only ever taken with both sums at or
\* below the threshold.
C2_InboundBackpressure ==
    [][/\ (pc = "session"
           /\ (ServiceHeld > recv_event_size \/ SessionHeld > recv_event_size))
            => /\ took_event' = NoEvent
               /\ calls' = <<>>
               /\ is_pending'
               /\ UNCHANGED <<sessions, state, listens, service_proto_handles,
                              session_proto_handles, session_event_receiver>>
       /\ took_event' # NoEvent
            => /\ pc = "session"
               /\ ServiceHeld <= recv_event_size
               /\ SessionHeld <= recv_event_size]_vars

\* a session-event poll was refused because of the session-level buffers alone
C2_Witness ==
    /\ pc = "user" /\ took_event = NoEvent /\ is_pending
    /\ SessionHeld > recv_event_size
    /\ ServiceHeld <= recv_event_size
    /\ DOMAIN sessions # {}

\* C3: any two distinct sessions of the session map that carry a remote
\* public key carry different keys.
C3_NoDuplicatePubkey ==
    \A i, j \in DOMAIN sessions :
        (i # j /\ sessions[i].remote_pubkey # NoKey /\ sessions[j].remote_pubkey # NoKey)
            => sessions[i].remote_pubkey # sessions[j].remote_pubkey

\* a HandshakeSuccess with the key of an open session was handled and
\* rejected
C3_Witness ==
    /\ pc = "user"
    /\ took_event.ev = "HandshakeSuccess"
    /\ took_event.public_key # NoKey
    /\ \E i \in DOMAIN sessions : sessions[i].remote_pubkey = took_event.public_key
    /\ CallsOf(calls, "SessionOpen", next_session) = {}
    /\ \E i \in 1 .. Len(calls) : calls[i].detail = "RepeatedConnection"

\* C4: session id allocation. In every step that opens a session, the id of
\* the new session is the first value, probing upward with wrap-around from
\* the previously allocated id + 1, that is not a key of the session map at
\* that moment; it becomes next_session, no open session is overwritten, and
\* afterwards every key of the map equals the id its controller stores.
C4_SessionIdAllocation ==
    [][/\ \A i \in CallsOfKind(calls', "SessionOpen") :
            LET id == calls'[i].id IN
            /\ id \notin DOMAIN sessions
            /\ id \in DOMAIN sessions'
            /\ id = next_session'
            /\ \E k \in 1 .. IdModulus :
                  /\ id = (next_session + k) % IdModulus
                  /\ \A j \in 1 .. (k - 1) :
                        (next_session + j) % IdModulus \in DOMAIN sessions
            /\ \A j \in DOMAIN sessions :
                  j \in DOMAIN sessions' /\ sessions'[j] = sessions[j]
       /\ (DOMAIN sessions' \ DOMAIN sessions # {})
            => CallsOfKind(calls', "SessionOpen") # {}
       /\ \A j \in DOMAIN sessions' : sessions'[j].id = j]_vars

\* a session was opened with an id found after wrapping around, next to an
\* older session that is still open
C4_Witness ==
    /\ pc = "user"
    /\ CallsOf(calls, "SessionOpen", 0) # {}
    /\ next_session = 0
    /\ Cardinality(DOMAIN sessions) = 2

\* C5: before any shutdown, with a counted pending (forever = FALSE), a
\* session event that belongs to no dial or listen attempt leaves
\* state.pending unchanged.
C5_OnlyAttemptsDecrement ==
    [][(pc = "session" /\ took_event' # NoEvent /\ ~ took_event'.attempt
        /\ ~ state.forever /\ ~ state.shutdown)
          => state'.pending = state.pending]_vars

\* C6: before any shutdown, with a counted pending (forever = FALSE),
\* state.pending equals the number of dial and listen attempts in flight.
C6_PendingCountsAttempts ==
    (~ state.forever /\ ~ state.shutdown) => state.pending = attempts

\* C7: every key (session id, protocol id) of the session-level handler
\* records names a session of the session map, and every session of the map
\* has the one controller that stores its id.
C7_HandlerRecordsHaveSession ==
    /\ \A k \in DOMAIN session_proto_handles : k[1] \in DOMAIN sessions
    /\ \A id \in DOMAIN sessions : sessions[id].id = id

\* the SessionClose of an open session was handled while another session
\* with its handler record stays open
C7_Witness ==
    /\ pc = "user"
    /\ took_event.ev = "SessionClose"
    /\ CallsOf(calls, "SessionClose", took_event.id) # {}
    /\ took_event.id \notin DOMAIN sessions
    /\ DOMAIN session_proto_handles # {}

\* C8: shutdown is monotone. Once the global shutdown flag is true it stays
\* true, and once the state is in pre-shutdown it stays in pre-shutdown.
C8_ShutdownMonotone ==
    [][(shutdown => shutdown') /\ (state.shutdown => state'.shutdown)]_vars

\* after a Shutdown task, a Listen task was handled in pre-shutdown
C8_Witness ==
    /\ pc = "end"
    /\ took_task.task = "Listen"
    /\ state.shutdown
    /\ state.pending > 0

\* C9: the number of sessions in the session map never exceeds
\* max_connection_number.
C9_MaxConnections == Cardinality(DOMAIN sessions) <= max_connection_number

\* C10: a SessionClose user event for a session is emitted exactly in the
\* step that removes its controller, once; a Disconnect task removes no
\* session and emits no SessionClose, and for a session that is not in the
\* map it makes no callback and changes nothing.
C10_DisconnectIdempotent ==
    [][/\ \A id \in SessionIds :
            Cardinality(CallsOf(calls', "SessionClose", id))
              = IF id \in DOMAIN sessions /\ id \notin DOMAIN sessions' THEN 1 ELSE 0
       /\ (pc = "user" /\ took_task'.task = "Disconnect")
            => /\ DOMAIN sessions' = DOMAIN sessions
               /\ took_task'.session_id \notin DOMAIN sessions
                    => /\ calls' = <<>>
                       /\ UNCHANGED <<sessions, listens, dial_protocols, state,
                                      next_session, service_proto_handles,
                                      session_proto_handles, future_task_sender,
                                      shutdown>>]_vars

\* a second Disconnect for an open session was handled while the
\* SessionClose of the first is still held in its buffer
C10_Witness ==
    /\ pc = "end"
    /\ took_task.task = "Disconnect"
    /\ took_task.session_id \in DOMAIN sessions
    /\ Len(SelectSeq(sessions[took_task.session_id].buffer, LAMBDA x : x.ev = "SessionClose")) >= 2

\* C11: graceful shutdown. The stream yields Ready(None) only when every
\* session that was reported by SessionOpen has been reported by
\* SessionClose; a Shutdown(false) task removes no session, so each session
\* open at that moment gets its SessionClose before the stream ends.
C11_GracefulShutdown ==
    [][/\ ret' = "ReadyNone" => opened' = {}
       /\ (pc = "user" /\ took_task'.task = "Shutdown" /\ ~ took_task'.quick)
            => (opened' = opened /\ DOMAIN sessions' = DOMAIN sessions)]_vars

\* after a Shutdown(false) the last open session reports SessionClose, the
\* handle gets its SessionClose event, and the stream has not yet ended
C11_Witness ==
    /\ pc = "user"
    /\ took_event.ev = "SessionClose"
    /\ state.shutdown /\ ~ session_event_receiver.closed
    /\ CallsOf(calls, "SessionClose", took_event.id) # {}
    /\ opened = {}
    /\ next_session = 2
    /\ ret # "ReadyNone"

\* C12: abrupt shutdown. The step that handles Shutdown(true) reports
\* SessionClose once for every open session and leaves the termination
\* condition true; the tail of that round sets the shutdown flag and turns to
\* the stored tasks; from then on no step takes a session event or a user
\* task or calls the ServiceHandle.
C12_AbruptShutdown ==
    [][/\ (pc = "user" /\ took_task'.task = "Shutdown" /\ took_task'.quick)
            => /\ \A id \in DOMAIN sessions :
                     Cardinality(CallsOf(calls', "SessionClose", id)) = 1
               /\ DOMAIN sessions' = {}
               /\ listens' = {}
               /\ is_shutdown(state')
               /\ Buffer_is_empty(future_task_sender')
       /\ (pc = "end" /\ took_task.task = "Shutdown" /\ took_task.quick)
            => (shutdown' /\ pc' = "idle" /\ ret' \in {"ReadyNone", "Pending"})
       /\ (session_event_receiver.closed /\ service_task_receiver.closed)
            => (took_event' = NoEvent /\ took_task' = NoTask /\ calls' = <<>>)]_vars

\* Shutdown(true) was handled with two sessions open: both got SessionClose
\* in that step
C12_Witness ==
    /\ pc = "end"
    /\ took_task.task = "Shutdown" /\ took_task.quick
    /\ Cardinality(CallsOfKind(calls, "SessionClose")) = 2
    /\ DOMAIN sessions = {}

\* C13: the shutdown flag is set, and the stream has yielded Ready(None),
\* only while the listen set is empty, the state is shutdown-eligible
\* (State::is_shutdown), the session map is empty and the future-task queue
\* is empty; a head check or a tail check that finds the four true sets the
\* flag and returns what wait_handle_poll returns.
C13_TerminationCondition ==
    [][/\ (shutdown' \/ ret' = "ReadyNone")
            => /\ shutdown'
               /\ listens' = {}
               /\ is_shutdown(state')
               /\ DOMAIN sessions' = {}
               /\ Buffer_is_empty(future_task_sender')
       /\ (PollStart /\ listens = {} /\ is_shutdown(state) /\ DOMAIN sessions = {}
             /\ Buffer_is_empty(future_task_sender))
            => (shutdown' /\ pc' = "idle"
                /\ ret' = IF wait_handle' = <<>> THEN "ReadyNone" ELSE "Pending")
       /\ (pc = "end" /\ listens' = {} /\ is_shutdown(state') /\ DOMAIN sessions' = {}
             /\ Buffer_is_empty(future_task_sender'))
            => (shutdown' /\ pc' = "idle"
                /\ ret' = IF wait_handle' = <<>> THEN "ReadyNone" ELSE "Pending")]_vars

\* the flag is set and wait_handle_poll still waits for a stored task
C13_Witness ==
    /\ pc = "idle"
    /\ shutdown
    /\ ret = "Pending"
    /\ wait_handle # <<>>
    /\ state.shutdown

\* C14: with forever = true and no Shutdown handled the shutdown flag stays
\* clear and the stream never yields Ready(None), also when pending = 0 and
\* sessions, listens and the future-task queue are empty; with
\* forever = false a head or tail check that finds pending = 0 and the three
\* empty sets the flag.
C14_ForeverIdles ==
    [][/\ (state'.forever /\ ~ state'.shutdown) => (~ shutdown' /\ ret' # "ReadyNone")
       /\ (PollStart /\ ~ state.forever /\ state.pending = 0 /\ listens = {}
             /\ DOMAIN sessions = {} /\ Buffer_is_empty(future_task_sender))
            => shutdown'
       /\ (pc = "end" /\ ~ state'.forever /\ state'.pending = 0 /\ listens' = {}
             /\ DOMAIN sessions' = {} /\ Buffer_is_empty(future_task_sender'))
            => shutdown']_vars

\* a forever service finished a poll round with nothing left to do, and idles
C14_Witness ==
    /\ pc = "idle"
    /\ ~ future_task_manager
    /\ state.forever /\ ~ state.shutdown /\ state.pending = 0
    /\ listens = {} /\ DOMAIN sessions = {} /\ Buffer_is_empty(future_task_sender)
    /\ future_tasks = <<>> /\ next_session # 0
    /\ ret = "Pending" /\ ~ shutdown

\* the sessions of the map that hold the public key of the event e
SameKey(e) == {id \in DOMAIN sessions : sessions[id].remote_pubkey = e.public_key}

\* C15 as stated: every HandshakeSuccess whose public key a session of the
\* map already has creates no session and is answered by exactly one
\* RepeatedConnection error that carries the id of that session.
C15_DuplicateRejected ==
    [][(pc = "session" /\ took_event'.ev = "HandshakeSuccess"
        /\ took_event'.public_key # NoKey /\ SameKey(took_event') # {})
          => /\ sessions' = sessions
             /\ session_proto_handles' = session_proto_handles
             /\ next_session' = next_session
             /\ Len(calls') = 1
             /\ calls'[1].cb = "handle_error"
             /\ calls'[1].detail = "RepeatedConnection"
             /\ calls'[1].id \in SameKey(took_event')
             /\ calls'[1].kind = IF took_event'.ty = "Outbound"
                                 THEN "DialerError" ELSE "ListenError"]_vars

\* C15 amended: the same, for a HandshakeSuccess that arrives while the
\* connection limit is not reached (the sessions plus the pending attempts,
\* after the decrement for an outbound result, do not exceed
\* max_connection_number); one that arrives beyond the limit is dropped
\* without a session and without an error.
C15_DuplicateRejectedWithinLimit ==
    [][(pc = "session" /\ took_event'.ev = "HandshakeSuccess"
        /\ took_event'.public_key # NoKey /\ SameKey(took_event') # {})
          => /\ sessions' = sessions
             /\ session_proto_handles' = session_proto_handles
             /\ next_session' = next_session
             /\ IF Cardinality(DOMAIN sessions) + state'.pending <= max_connection_number
                THEN /\ Len(calls') = 1
                     /\ calls'[1].cb = "handle_error"
                     /\ calls'[1].detail = "RepeatedConnection"
                     /\ calls'[1].id \in SameKey(took_event')
                     /\ calls'[1].kind = IF took_event'.ty = "Outbound"
                                         THEN "DialerError" ELSE "ListenError"
                ELSE calls' = <<>>]_vars

\* an outbound connection to a peer that already has a session was refused
\* with DialerError::RepeatedConnection(id of that session)
C15_Witness ==
    /\ pc = "user"
    /\ took_event.ev = "HandshakeSuccess" /\ took_event.ty = "Outbound"
    /\ took_event.public_key # NoKey /\ SameKey(took_event) # {}
    /\ Len(calls) = 1
    /\ calls[1].kind = "DialerError" /\ calls[1].detail = "RepeatedConnection"
    /\ calls[1].id \in SameKey(took_event)

\* C16 as stated: a HandshakeSuccess with a public key that no session of
\* the map has is refused with DialerError::PeerIdNotMatch, and no session
\* is created, if its address names another peer id than the key's; if its
\* address names no peer id a session is created whose address carries the
\* key's peer id.
C16_PeerIdValidated ==
    [][(pc = "session" /\ took_event'.ev = "HandshakeSuccess"
        /\ took_event'.public_key # NoKey /\ SameKey(took_event') = {})
          => LET e == took_event'
                 named == extract_peer_id(e.address)
             IN  /\ (named # NoPeer /\ named # peer_id(e.public_key))
                      => /\ sessions' = sessions
                         /\ Len(calls') = 1
                         /\ calls'[1].cb = "handle_error"
                         /\ calls'[1].kind = "DialerError"
                         /\ calls'[1].detail = "PeerIdNotMatch"
                 /\ named = NoPeer
                      => \E id \in DOMAIN sessions' \ DOMAIN sessions :
                           /\ sessions'[id].remote_pubkey = e.public_key
                           /\ sessions'[id].address
                                = Addr(e.address.host, peer_id(e.public_key))]_vars

\* C16 amended: the same, for a HandshakeSuccess that arrives while the
\* connection limit is not reached; beyond the limit it is dropped without a
\* session and without an error.
C16_PeerIdValidatedWithinLimit ==
    [][(pc = "session" /\ took_event'.ev = "HandshakeSuccess"
        /\ took_event'.public_key # NoKey /\ SameKey(took_event') = {})
          => LET e == took_event'
                 named == extract_peer_id(e.address)
             IN  IF Cardinality(DOMAIN sessions) + state'.pending <= max_connection_number
                 THEN /\ (named # NoPeer /\ named # peer_id(e.public_key))
                           => /\ sessions' = sessions
                              /\ Len(calls') = 1
                              /\ calls'[1].cb = "handle_error"
                              /\ calls'[1].kind = "DialerError"
                              /\ calls'[1].detail = "PeerIdNotMatch"
                      /\ named = NoPeer
                           => \E id \in DOMAIN sessions' \ DOMAIN sessions :
                                /\ sessions'[id].remote_pubkey = e.public_key
                                /\ sessions'[id].address
                                     = Addr(e.address.host, peer_id(e.public_key))
                 ELSE sessions' = sessions /\ calls' = <<>>]_vars

\* a dial to an address that names peer p1 was answered with the key of
\* another peer: PeerIdNotMatch, and no session
C16_Witness ==
    /\ pc = "user"
    /\ took_event.ev = "HandshakeSuccess"
    /\ took_event.public_key # NoKey /\ SameKey(took_event) = {}
    /\ extract_peer_id(took_event.address) \notin {NoPeer, peer_id(took_event.public_key)}
    /\ Len(calls) = 1 /\ calls[1].detail = "PeerIdNotMatch"
    /\ CallsOfKind(calls, "SessionOpen") = {}

\* C17: handler adapter death is fatal. A flush that finds events held for
\* a handler whose receiver is gone reports ProtocolHandleError with
\* AbnormallyClosed (no session id for a service-level handler, the session
\* id for a session-level one); a step that reports so, or that handles a
\* ProtocolHandleError event (which it reports too), performs
\* Shutdown(false): the state is in pre-shutdown, every listen is closed with
\* ListenClose, no session is removed and each gets a High SessionClose
\* (seen in the buffer of a session whose channel is full).
C17_HandlerDeathFatal ==
    [][LET closed == {i \in 1 .. Len(calls') :
                        /\ calls'[i].cb = "handle_error"
                        /\ calls'[i].kind = "ProtocolHandleError"
                        /\ calls'[i].detail = "AbnormallyClosed"}
           deadService == {p \in DOMAIN service_proto_handles :
                             /\ ~ service_proto_handles[p].alive
                             /\ ~ Buffer_is_empty(service_proto_handles[p])}
           deadSession == {k \in DOMAIN session_proto_handles :
                             /\ ~ session_proto_handles[k].alive
                             /\ ~ Buffer_is_empty(session_proto_handles[k])}
       IN  /\ (pc = "flush" /\ ~ shutdown)
                => /\ \A p \in deadService : \E i \in closed :
                         calls'[i].proto_id = p /\ calls'[i].id = NoId
                   /\ \A k \in deadSession : \E i \in closed :
                         calls'[i].proto_id = k[2] /\ calls'[i].id = k[1]
           /\ (pc = "session" /\ took_event'.ev = "ProtocolHandleError")
                => \E i \in 1 .. Len(calls') :
                      /\ calls'[i].cb = "handle_error"
                      /\ calls'[i].kind = "ProtocolHandleError"
                      /\ calls'[i].proto_id = took_event'.proto_id
           /\ (closed # {} \/ took_event'.ev = "ProtocolHandleError")
                => /\ state'.shutdown
                   /\ listens' = {}
                   /\ \A a \in listens : \E i \in 1 .. Len(calls') :
                         calls'[i].kind = "ListenClose" /\ calls'[i].address = a
                   /\ DOMAIN sessions' = DOMAIN sessions
                   /\ \A id \in DOMAIN sessions :
                         (sessions[id].alive /\ sessions[id].room = 0)
                           => sessions'[id].buffer
                                = Append(sessions[id].buffer,
                                         Item("High", "SessionClose", 0, ""))]_vars

\* a flush found a dead session-level handler with events held: the error
\* was reported, the listen closed, and the open session, whose channel is
\* full, holds the SessionClose it was sent
C17_Witness ==
    /\ pc = "listens"
    /\ \E i \in 1 .. Len(calls) :
          /\ calls[i].kind = "ProtocolHandleError"
          /\ calls[i].detail = "AbnormallyClosed"
          /\ calls[i].id # NoId
    /\ CallsOfKind(calls, "ListenClose") # {}
    /\ state.shutdown /\ listens = {}
    /\ \E id \in DOMAIN sessions :
          /\ sessions[id].alive /\ sessions[id].room = 0
          /\ sessions[id].buffer # <<>>
          /\ sessions[id].buffer[Len(sessions[id].buffer)].ev = "SessionClose"

\* the recoverable errors among the session events
RecoverableErrors ==
    {"DialError", "HandshakeError", "ListenError", "ProtocolSelectError",
     "ProtocolError", "MuxerError", "SessionTimeout"}

\* C18: a step that handles a recoverable error event, and a flush whose
\* results are Ok or Pending, leave the state out of pre-shutdown, the
\* shutdown flag as it is and every session in the session map; without a
\* Shutdown task and without a handler adapter death the state never enters
\* pre-shutdown, and a session leaves the map only with its own SessionClose.
C18_RecoverableErrors ==
    [][/\ ((pc = "session" /\ took_event'.ev \in RecoverableErrors) \/ pc = "flush")
            => /\ state'.shutdown = state.shutdown
               /\ shutdown' = shutdown
               /\ DOMAIN sessions \subseteq DOMAIN sessions'
               /\ \A id \in DOMAIN sessions :
                     sessions'[id].remote_pubkey = sessions[id].remote_pubkey
       /\ ~ state'.shutdown
       /\ \A id \in DOMAIN sessions \ DOMAIN sessions' :
             took_event'.ev = "SessionClose" /\ took_event'.id = id]_vars

\* a session reported an error of a protocol while another flush had found
\* its channel full: the error reached handle_error and the session stays
C18_Witness ==
    /\ pc = "user"
    /\ took_event.ev = "ProtocolError"
    /\ CallsOfKind(calls, "ProtocolError") # {}
    /\ took_event.id \in DOMAIN sessions
    /\ sessions[took_event.id].room = 0 /\ sessions[took_event.id].buffer # <<>>
    /\ ~ state.shutdown /\ ~ shutdown

\* C19: in every poll round that starts before the shutdown flag is set,
\* handle_error receives SessionBlocked, with the session's context, for
\* every session whose buffer holds more items than its channel has room for
\* while its receiver exists (try_send returns Pending in the flush).
C19_SessionBlockedEachRound ==
    [][(pc = "flush" /\ ~ shutdown)
         => \A id \in DOMAIN sessions :
              LET blocked == /\ sessions[id].buffer # <<>>
                             /\ sessions[id].alive
                             /\ sessions[id].room # Prompt
                             /\ Len(sessions[id].buffer) > sessions[id].room
                  reports == {i \in CallsOf(calls', "SessionBlocked", id) :
                                /\ calls'[i].cb = "handle_error"
                                /\ calls'[i].address = sessions[id].address}
              IN  blocked => reports # {}]_vars

\* a flush reported SessionBlocked for a session that still holds its items
C19_Witness ==
    /\ pc = "listens"
    /\ \E id \in DOMAIN sessions :
          /\ CallsOf(calls, "SessionBlocked", id) # {}
          /\ sessions[id].room = 0
          /\ Len(sessions[id].buffer) >= 2
    /\ ret = "Pending"

\* the ProtocolEvent that handle_proto receives for an internal session event
ProtocolEventOf ==
    [ProtocolOpen |-> "Connected", ProtocolMessage |-> "Received",
     ProtocolClose |-> "Disconnected"]

\* the handle_proto callbacks of a step
HandleProtoCalls(cs) == {i \in 1 .. Len(cs) : cs[i].cb = "handle_proto"}

\* C20: every handle_proto call is for a protocol of config.event; a step
\* that handles an internal ProtocolOpen, ProtocolMessage or ProtocolClose
\* calls handle_proto exactly once, with Connected, Received or Disconnected
\* for the event's session and protocol, if config.event holds the protocol
\* id and the session is in the session map, and does not call it otherwise.
C20_HandleProtoOnlySubscribed ==
    [][/\ \A i \in HandleProtoCalls(calls') : calls'[i].proto_id \in config_event
       /\ (pc = "session" /\ took_event'.ev \in DOMAIN ProtocolEventOf)
            => LET e == took_event'
                   hp == HandleProtoCalls(calls')
               IN  IF e.proto_id \in config_event /\ e.id \in DOMAIN sessions
                   THEN /\ Cardinality(hp) = 1
                        /\ \A i \in hp :
                              /\ calls'[i].kind = ProtocolEventOf[e.ev]
                              /\ calls'[i].id = e.id
                              /\ calls'[i].proto_id = e.proto_id
                   ELSE hp = {}]_vars

\* a session reported the closing of the subscribed protocol and the step
\* called handle_proto once, with Disconnected for that session
C20_Witness ==
    /\ pc = "user"
    /\ took_event.ev = "ProtocolClose"
    /\ took_event.proto_id \in config_event
    /\ took_event.id \in DOMAIN sessions
    /\ Cardinality(HandleProtoCalls(calls)) = 1
    /\ \A i \in HandleProtoCalls(calls) :
          calls[i].kind = "Disconnected" /\ calls[i].id = took_event.id

\* the protocols with a service-level handle, and those with a hook
ServiceHandled == {p \in ProtocolIds : HasHandle(protocol_configs[p].service_handle)}
Hooked == {p \in ProtocolIds : protocol_configs[p].before_send}

\* C21: the first poll that passes the head check, and no other step,
\* creates the record of every protocol with a service-level handle (empty),
\* gives each its Init and registers the before_send hooks; no handler gets
\* Init twice, and a record only exists for a handler that has had its Init,
\* so that nothing reaches a handler before Init.
C21_InitOnce ==
    [][/\ (pc = "idle" /\ ~ AllEmpty(S) /\ pc' = "flush")
            => /\ ~ future_task_manager'
               /\ \A p \in ServiceHandled : inits'[p] = 1
               /\ before_sends' = Hooked
               /\ future_task_manager
                    => /\ inits = [p \in ProtocolIds |-> 0]
                       /\ before_sends = {} /\ service_proto_handles = << >>
                       /\ service_proto_handles' = [p \in ServiceHandled |-> Buffer_new]
       /\ (inits' # inits \/ before_sends' # before_sends
             \/ DOMAIN service_proto_handles' \ DOMAIN service_proto_handles # {})
            => (pc = "idle" /\ pc' = "flush" /\ future_task_manager)
       /\ \A p \in ProtocolIds :
             /\ inits'[p] <= 1
             /\ p \notin ServiceHandled => inits'[p] = 0
             /\ p \in DOMAIN service_proto_handles' => inits'[p] = 1]_vars

\* long after the first poll, with the handler holding an event behind its
\* Init, the counters still stand at one Init and the hooks as registered
C21_Witness ==
    /\ ~ future_task_manager
    /\ ret = "ReadySome"
    /\ \E p \in ServiceHandled :
          /\ inits[p] = 1
          /\ p \in DOMAIN service_proto_handles
          /\ service_proto_handles[p].buffer # <<>>
    /\ before_sends = Hooked

\* what a step does to a handler buffer b, b1 after it: a number of items
\* leave at the head, all into the channel, and the others keep their order
\* in front of what the step pushes
SentInOrder(b, b1) ==
    \E sent \in 0 .. Len(b.buffer) :
        LET kept == SubSeq(b.buffer, sent + 1, Len(b.buffer)) IN
        /\ Len(b1.buffer) >= Len(kept)
        /\ SubSeq(b1.buffer, 1, Len(kept)) = kept
        /\ b.room # Prompt => sent <= b.room
        /\ (b.room # Prompt /\ b1.room # Prompt) => b1.room <= b.room - sent

\* a handler buffer holds events and its receiver takes them again
Resumed(b) == b.buffer # <<>> /\ b.alive /\ b.room = Prompt

\* a refused session poll reads no event and adds nothing to a handler buffer
StopsReading ==
    (pc = "session" /\ RecvBufferExceeded(S))
        => /\ took_event' = NoEvent
           /\ UNCHANGED <<service_proto_handles, session_proto_handles>>

\* no step loses or reorders a held event of a handler whose record stays
DeliversInOrder ==
    /\ \A p \in DOMAIN service_proto_handles \cap DOMAIN service_proto_handles' :
          SentInOrder(service_proto_handles[p], service_proto_handles'[p])
    /\ \A k \in DOMAIN session_proto_handles \cap DOMAIN session_proto_handles' :
          SentInOrder(session_proto_handles[k], session_proto_handles'[k])

\* some handler that takes its events has events held
HeldByResumed ==
    \/ \E p \in DOMAIN service_proto_handles : Resumed(service_proto_handles[p])
    \/ \E k \in DOMAIN session_proto_handles : Resumed(session_proto_handles[k])

\* the held events of the handlers that have resumed are all delivered
\* (or the handler stops again, or its session closes), unless the service
\* terminates
Recovers == HeldByResumed ~> (~ HeldByResumed \/ shutdown)

\* every handler takes its events
AllPrompt ==
    /\ \A p \in DOMAIN service_proto_handles : service_proto_handles[p].room = Prompt
    /\ \A k \in DOMAIN session_proto_handles : session_proto_handles[k].room = Prompt

\* once every handler has resumed, a session poll passes the read-buffer check
PollingResumes ==
    (pc = "idle" /\ RecvBufferExceeded(S) /\ AllPrompt /\ ~ shutdown)
        ~> \/ pc = "session" /\ ~ RecvBufferExceeded(S)
           \/ ~ AllPrompt
           \/ shutdown

\* C22 as stated: with more than recv_event_size events held in a class of
\* handler buffers the Service reads no session event and, in no step, holds
\* more than before; after the handler resumes every held event is delivered
\* in order and session polling resumes.
C22_BackpressureRecovery ==
    /\ [][/\ StopsReading
          /\ RecvBufferExceeded(S) => (ServiceHeld + SessionHeld)' <= ServiceHeld + SessionHeld
          /\ DeliversInOrder]_vars
    /\ Recovers
    /\ PollingResumes

\* C22, for what the backpressure stops: with more than recv_event_size
\* events held the Service reads no session event, so that session polling
\* adds nothing to the handler buffers (a notify task of the user and the
\* Update of a changed listen set are still queued); after the handler
\* resumes every held event is delivered in order and session polling resumes.
C22_BackpressureRecoveryOfReads ==
    /\ [][StopsReading /\ DeliversInOrder]_vars
    /\ Recovers
    /\ PollingResumes

\* a handler has resumed with more than recv_event_size events held, after a
\* round that ended Pending
C22_Witness ==
    /\ pc = "idle" /\ ret = "Pending" /\ ~ shutdown
    /\ \E p \in DOMAIN service_proto_handles :
          /\ Resumed(service_proto_handles[p])
          /\ Len(service_proto_handles[p].buffer) > recv_event_size

\* C23: the stored window never exceeds the stored frame length; a call of
\* yamux_config or max_frame_length whose value would break this panics and
\* stores nothing.
C23_WindowWithinFrame ==
    /\ [](config.max_stream_window_size <= config.max_frame_length)
    /\ [][/\ \A window \in 0 .. (U32Modulus - 1) :
               (yamux_config(window) /\ window > config.max_frame_length)
                  => (pc' = "panic" /\ config' = config)
          /\ \A size \in 0 .. (UsizeModulus - 1) :
               (max_frame_length(size) /\ size < config.max_stream_window_size)
                  => (pc' = "panic" /\ config' = config)
          /\ pc' = "panic" => config' = config]_vars

\* after calls that stored a frame length above the u32 range and a window
\* above the default, a call panicked
C23_Witness ==
    /\ pc = "panic"
    /\ config.max_frame_length >= U32Modulus
    /\ config.max_stream_window_size > ServiceConfig_default.max_stream_window_size

\* the protocols with a session-level handle
SessionHandled == {p \in ProtocolIds : HasHandle(protocol_configs[p].session_handle)}

\* the service-level records exist from the init to the shutdown
ServiceRecordsLive ==
    (~ future_task_manager /\ ~ state.shutdown)
        => DOMAIN service_proto_handles = ServiceHandled

AskedToClose(id) ==
    /\ pc = "end" /\ took_task.task = "Shutdown" /\ ~ took_task.quick
    /\ id \in DOMAIN sessions

\* every session that was asked to close emits its SessionClose
AskedSessionsClose ==
    \A id \in SessionIds : AskedToClose(id) ~> (id \notin DOMAIN sessions)

\* no dial, handshake or Listener is running
Quiet == future_tasks = <<>> /\ handshakes = <<>> /\ sockets = {}

\* the graceful shutdown has been handled and the shutdown flag is not yet
\* set; the stream has ended
InPreShutdown ==
    state.shutdown /\ ~ service_task_receiver.closed /\ ~ shutdown
Terminated == shutdown /\ ret = "ReadyNone"

SessionPollPending ==
    /\ pc = "session" /\ pc' # "session"
    /\ \/ RecvBufferExceeded(S)
       \/ took_event'.ev = "None" /\ ~ session_event_receiver.terminated

\* the step was a user_task_poll that returned Pending: the write check
\* refused, or the channel had nothing
UserTaskPollPending ==
    /\ pc = "user" /\ pc' # "user"
    /\ \/ SendBufferExceeded(S)
       \/ took_task'.task = "None" /\ ~ service_task_receiver'.terminated

\* C26: is_pending is the Pending of session_poll and-ed with the Pending of
\* user_task_poll, and a round whose tail does not find the termination
\* condition returns Pending if is_pending and Ready(Some(())) otherwise.
C26_PendingIffBothPending ==
    [][/\ (pc = "session" /\ pc' # "session")
            => (is_pending' <=> SessionPollPending)
       /\ (pc = "user" /\ pc' # "user")
            => (is_pending' <=> (is_pending /\ UserTaskPollPending))
       /\ (pc = "end" /\ pc' # "end" /\ ~ AllEmpty(send_pending_task(S)))
            => /\ ret' \in {"Pending", "ReadySome"}
               /\ ret' = "Pending" <=> is_pending]_vars

\* session_poll was refused by the read check and returned Pending,
\* user_task_poll handled a task: the round will return Ready(Some(()))
C26_Witness ==
    /\ pc = "end" /\ ~ is_pending
    /\ RecvBufferExceeded(S)
    /\ took_task.task # "None"
    /\ ~ AllEmpty(send_pending_task(S))

\* the buffer b1 is the buffer b after the item was pushed and the buffer
\* flushed
PushedAndFlushed(b, b1, item) == b1 = try_send(Buffer_push(b, item)).b

\* the step publishes the listen set it found and pushes the Update with it
\* into every handler buffer
Publishes ==
    LET upd == Item("Normal", "Update", 0, listens) IN
    /\ service_context_listens' = listens
    /\ DOMAIN service_proto_handles' = DOMAIN service_proto_handles
    /\ DOMAIN session_proto_handles' = DOMAIN session_proto_handles
    /\ \A p \in DOMAIN service_proto_handles :
          PushedAndFlushed(service_proto_handles[p], service_proto_handles'[p], upd)
    /\ \A k \in DOMAIN session_proto_handles :
          PushedAndFlushed(session_proto_handles[k], session_proto_handles'[k], upd)

\* a handler whose receiver is gone
SomeHandlerGone ==
    \/ \E p \in DOMAIN service_proto_handles : ~ service_proto_handles[p].alive
    \/ \E k \in DOMAIN session_proto_handles : ~ session_proto_handles[k].alive

SameLength == Cardinality(listens) = Cardinality(service_context_listens)

\* C27 as stated: the listen-update step publishes a listen set that differs
\* from the published list and pushes the Update into every handler buffer,
\* and after the step the published list is the Service's listen set.
C27_ListenUpdate ==
    [][(pc = "listens" /\ pc' # "listens")
          => /\ (listens # service_context_listens) => Publishes
             /\ service_context_listens' = listens']_vars

\* C27, by the number of addresses: the listen-update step publishes the
\* listen set and pushes the Update into every handler buffer when the set
\* and the published list differ in length, and does nothing otherwise.  The
\* listen set is left as found, unless the Update met a handler whose receiver
\* is gone: the shutdown that follows empties it.  Until a shutdown has begun
\* a different set has a different length, and the published list is the
\* listen set after the step.
C27_ListenUpdateByLength ==
    [][(pc = "listens" /\ pc' # "listens")
          => /\ ~ SameLength
                  => /\ Publishes
                     /\ \/ listens' = listens
                        \/ SomeHandlerGone /\ listens' = {} /\ state'.shutdown
             /\ SameLength
                  => /\ service_context_listens' = service_context_listens
                     /\ listens' = listens
                     /\ service_proto_handles' = service_proto_handles
                     /\ session_proto_handles' = session_proto_handles
             /\ (~ state.shutdown /\ listens # service_context_listens) => ~ SameLength
             /\ ~ state'.shutdown => service_context_listens' = listens']_vars

\* the listen-update step has found a listen set that differs from the
\* published list, of the same length, and has published nothing
C27_Witness ==
    /\ pc = "session"
    /\ listens # service_context_listens
    /\ SameLength

\* the sessions a target names, among those in the session map
Targeted(target) ==
    IF target.kind = "All" THEN DOMAIN sessions ELSE target.ids \cap DOMAIN sessions

\* C28: the step that handles a ProtocolMessage task pushes one message,
\* with the task's priority and protocol and the data after the hook of the
\* protocol, into the buffer of each session the target names and flushes
\* it; ids outside the session map are skipped, the buffers of the other
\* sessions stay as they are, no session is added or removed and nothing is
\* reported but a blocked session.
C28_MessageRouting ==
    [][(pc = "user" /\ took_task'.task = "ProtocolMessage")
          => LET task == took_task'
                 data == IF task.proto_id \in before_sends
                         THEN before_send(task.data) ELSE task.data
                 msg == Item(task.pri, "ProtocolMessage", task.proto_id, data)
             IN  /\ DOMAIN sessions' = DOMAIN sessions
                 /\ \A id \in DOMAIN sessions :
                       IF id \in Targeted(task.target)
                       THEN PushedAndFlushed(sessions[id], sessions'[id], msg)
                       ELSE sessions'[id] = sessions[id]
                 /\ \A i \in 1 .. Len(calls') : calls'[i].kind = "SessionBlocked"]_vars

\* a High message for protocol 1, changed by the hook, sent to sessions 0
\* and 2, is held by the stalled session 2 behind an earlier message, while
\* session 1 holds none
C28_Witness ==
    /\ pc = "end"
    /\ took_task.task = "ProtocolMessage" /\ took_task.pri = "High"
    /\ took_task.target = TargetMulti({0, 2}) /\ took_task.proto_id = 1
    /\ DOMAIN sessions = {1, 2}
    /\ sessions[1].buffer = <<>>
    /\ \E i \in 1 .. Len(sessions[2].buffer) :
          sessions[2].buffer[i] = Item("High", "ProtocolMessage", 1, "f(d)")

\* the step leaves the Service as it found it and reports nothing
NothingDone ==
    /\ dial_protocols' = dial_protocols /\ listens' = listens
    /\ state' = state /\ sessions' = sessions
    /\ future_task_sender' = future_task_sender /\ future_tasks' = future_tasks
    /\ calls' = <<>>

\* the step pushes one future of the kind for the address and counts it
OneAttempt(kind, address) ==
    /\ future_task_sender' = Buffer_push(future_task_sender, FutureTask(kind, address))
    /\ state' = increase(state)
    /\ calls' = <<>>

\* the step pushes no future, counts nothing and reports the transport's
\* refusal of the address
Refused(kind, address) ==
    /\ future_task_sender' = future_task_sender
    /\ state' = state
    /\ calls' = <<Call("handle_error", kind, NoId, address, 0, "TransportError")>>

\* C29 as stated: a Dial for an address without a dial record records the
\* target, pushes one dial future and increments pending; a Dial for an
\* address with a record does nothing.
C29_DialTask ==
    [][(pc = "user" /\ took_task'.task = "Dial")
          => LET address == took_task'.address IN
             IF address \in DOMAIN dial_protocols THEN NothingDone
             ELSE /\ dial_protocols' = Extend(dial_protocols, address, took_task'.target)
                  /\ OneAttempt("dial", address)]_vars

\* C29, by what the transport says: a Dial for an address without a dial
\* record records the target; if the transport takes the address, one dial
\* future is pushed and pending incremented; if it refuses, no future is
\* pushed, pending stays and DialerError is reported.  A Dial for an address
\* with a record does nothing.
C29_DialTaskIfSupported ==
    [][(pc = "user" /\ took_task'.task = "Dial")
          => LET address == took_task'.address IN
             IF address \in DOMAIN dial_protocols THEN NothingDone
             ELSE /\ dial_protocols' = Extend(dial_protocols, address, took_task'.target)
                  /\ listens' = listens /\ sessions' = sessions
                  /\ IF Supported(address) THEN OneAttempt("dial", address)
                     ELSE Refused("DialerError", address)]_vars

\* a Dial for an address with a record was handled while another dial was
\* in flight: the record keeps its first target
C29_Witness ==
    /\ pc = "end" /\ took_task.task = "Dial"
    /\ took_task.address \in DOMAIN dial_protocols
    /\ dial_protocols[took_task.address] # took_task.target
    /\ state.pending = 1 /\ future_task_sender.buffer = <<>>

\* a listen attempt for the address is in the future-task queue or with the
\* FutureTaskManager
ListenInFlight(address) ==
    \/ \E i \in 1 .. Len(future_task_sender.buffer) :
          future_task_sender.buffer[i] = FutureTask("listen", address)
    \/ \E i \in 1 .. Len(future_tasks) : future_tasks[i] = FutureTask("listen", address)

\* C30 as stated: a Listen for an address that is listened on or whose
\* attempt is in flight starts no attempt and leaves pending; any other
\* Listen pushes one listen future and increments pending.
C30_ListenTask ==
    [][(pc = "user" /\ took_task'.task = "Listen")
          => LET address == took_task'.address IN
             IF address \in listens \/ ListenInFlight(address)
             THEN /\ future_task_sender' = future_task_sender
                  /\ state' = state
             ELSE OneAttempt("listen", address)]_vars

\* C30, by the listen set alone: a Listen for an address that is listened on
\* does nothing.  Any other Listen, be an attempt for the address in flight
\* or not, pushes one listen future and increments pending if the transport
\* takes the address; if it refuses, no future is pushed, pending stays and
\* ListenError is reported.  The listen set and the dial records stay.
C30_ListenTaskByListens ==
    [][(pc = "user" /\ took_task'.task = "Listen")
          => LET address == took_task'.address IN
             IF address \in listens THEN NothingDone
             ELSE /\ listens' = listens /\ dial_protocols' = dial_protocols
                  /\ sessions' = sessions
                  /\ IF Supported(address) THEN OneAttempt("listen", address)
                     ELSE Refused("ListenError", address)]_vars

\* a Listen was handled for an address whose attempt is in flight: a second
\* attempt is with the FutureTaskManager or in the queue, and both are counted
C30_Witness ==
    /\ pc = "end" /\ took_task.task = "Listen"
    /\ took_task.address \notin listens
    /\ Len(SelectSeq(future_tasks \o future_task_sender.buffer,
                     LAMBDA f : f = FutureTask("listen", took_task.address))) = 2
    /\ state.pending = 2

\* the step decrements pending, removes the dial record of the address and
\* reports DialerError with the detail
DialFailed(address, detail) ==
    /\ state' = [state EXCEPT !.pending = @ - 1]
    /\ dial_protocols' = Restrict(dial_protocols, DOMAIN dial_protocols \ {address})
    /\ calls' = <<Call("handle_error", "DialerError", NoId, address, 0, detail)>>

\* C31 as stated: the step that handles a HandshakeError or a DialError
\* decrements pending, removes the dial record of the event's address and
\* reports DialerError, with HandshakeError or TransportError.
C31_DialFailures ==
    [][(pc = "session" /\ took_event'.ev \in {"HandshakeError", "DialError"})
          => DialFailed(took_event'.address,
                        IF took_event'.ev = "DialError"
                        THEN "TransportError" ELSE "HandshakeError")]_vars

\* C31, for the dialing side: the step that handles a DialError or the
\* HandshakeError of an outbound handshake decrements pending, removes the
\* dial record of the event's address and reports DialerError; the
\* HandshakeError of an inbound handshake changes none of them and reports
\* nothing.
C31_OutboundDialFailures ==
    [][(pc = "session" /\ took_event'.ev \in {"HandshakeError", "DialError"})
          => IF took_event'.ev = "DialError" \/ took_event'.ty = "Outbound"
             THEN DialFailed(took_event'.address,
                             IF took_event'.ev = "DialError"
                             THEN "TransportError" ELSE "HandshakeError")
             ELSE /\ state' = state /\ dial_protocols' = dial_protocols
                  /\ calls' = <<>>]_vars

\* the HandshakeError of a dial has been handled: its record is gone, the
\* count is back at zero and the error is reported
C31_Witness ==
    /\ pc = "user"
    /\ took_event.ev = "HandshakeError" /\ took_event.ty = "Outbound"
    /\ took_event.address \notin DOMAIN dial_protocols
    /\ state.pending = 0
    /\ Len(calls) = 1 /\ calls[1].detail = "HandshakeError"

\* the protocols with a session-level handle
SessionLevel == {p \in DOMAIN protocol_configs : HasHandle(protocol_configs[p].session_handle)}

\* C32: a step that puts a session into the session map leaves it there with
\* a handler record for every protocol that has a session-level handle, as
\* the Session task that is spawned finds them, and its only callback is the
\* SessionOpen of the session; and a callback that names a session is made
\* for a session that SessionOpen has reported and SessionClose has not, or
\* is the SessionOpen itself.
C32_SessionOpenOrdering ==
    [][/\ \A id \in DOMAIN sessions' \ DOMAIN sessions :
            /\ \A p \in SessionLevel :
                  /\ <<id, p>> \in DOMAIN session_proto_handles'
                  /\ session_proto_handles'[<<id, p>>] = Buffer_new
            /\ Len(calls') = 1
            /\ calls'[1].cb = "handle_event" /\ calls'[1].kind = "SessionOpen"
            /\ calls'[1].id = id
       /\ \A i \in 1 .. Len(calls') :
            calls'[i].id # NoId
               => \/ calls'[i].id \in opened
                  \/ \E j \in 1 .. i :
                        /\ calls'[j].cb = "handle_event" /\ calls'[j].kind = "SessionOpen"
                        /\ calls'[j].id = calls'[i].id]_vars

\* the step after a session was opened handles its first report: the handler
\* of protocol 1 is told Connected for a session that SessionOpen has reported
C32_Witness ==
    /\ pc = "user" /\ took_event.ev = "ProtocolOpen"
    /\ Len(calls) = 1 /\ calls[1].cb = "handle_proto"
    /\ calls[1].id \in opened
    /\ \A p \in SessionLevel : <<calls[1].id, p>> \in DOMAIN session_proto_handles

\* C33: effect of a Shutdown(quick) task. The step sets the pre-shutdown flag
\* of the state, reports ListenClose exactly once for each address of the
\* listen set and leaves the set empty, and empties the future-task send
\* queue. If quick, both handler buffer maps and the session map are empty
\* after the step; if not, the handler maps and the keys of the session map
\* are as before and every session's outbound buffer has got a High
\* SessionClose, handed to its channel when the channel has room.
C33_ShutdownEffect ==
    [][(pc = "user" /\ took_task'.task = "Shutdown")
         => /\ state' = [state EXCEPT !.shutdown = TRUE]
            /\ \A a \in listens :
                  Cardinality({i \in CallsOfKind(calls', "ListenClose") :
                                 calls'[i].address = a}) = 1
            /\ Cardinality(CallsOfKind(calls', "ListenClose")) = Cardinality(listens)
            /\ listens' = {}
            /\ Buffer_is_empty(future_task_sender')
            /\ IF took_task'.quick
               THEN /\ DOMAIN service_proto_handles' = {}
                    /\ DOMAIN session_proto_handles' = {}
                    /\ DOMAIN sessions' = {}
               ELSE /\ service_proto_handles' = service_proto_handles
                    /\ session_proto_handles' = session_proto_handles
                    /\ DOMAIN sessions' = DOMAIN sessions
                    /\ \A id \in DOMAIN sessions :
                          PushedAndFlushed(sessions[id], sessions'[id],
                                           Item("High", "SessionClose", 0, ""))]_vars

\* a Shutdown(false) was handled with the listen address recorded and two
\* sessions open, one of them stalled with a message held in its buffer: the
\* SessionClose waits behind it
C33_Witness ==
    /\ pc = "end"
    /\ took_task.task = "Shutdown" /\ ~ took_task.quick
    /\ Cardinality(CallsOfKind(calls, "ListenClose")) = 1
    /\ Cardinality(DOMAIN sessions) = 2
    /\ \E id \in DOMAIN sessions :
          /\ Len(sessions[id].buffer) = 2
          /\ sessions[id].buffer[2].ev = "SessionClose"

\* the step runs wait_handle_poll: the head or the tail of poll_next found
\* the termination condition
WaitHandlePolled ==
    \/ pc = "idle" /\ pc' = "idle" /\ shutdown' /\ done' = done
    \/ pc = "end" /\ shutdown'

\* C34: wait_handle_poll. A step that runs it sends the cancel signal to
\* the stored tasks whose sender is still stored and to no other, and stores
\* no sender afterwards, so that no task is signalled twice; it keeps exactly
\* the stored tasks that have not finished, in their order; and it returns
\* Ready(None) if none is kept and Pending otherwise.
C34_WaitHandlePoll ==
    [][WaitHandlePolled
         => LET unfinished == SelectSeq(wait_handle, LAMBDA h : h.task \notin done) IN
            /\ cancelled' \ cancelled
                  \subseteq {wait_handle[i].task : i \in {j \in 1 .. Len(wait_handle) :
                                                             wait_handle[j].sender}}
            /\ \A i \in 1 .. Len(wait_handle) :
                  wait_handle[i].sender => wait_handle[i].task \in cancelled'
            /\ \A i \in 1 .. Len(wait_handle') : ~ wait_handle'[i].sender
            /\ Len(wait_handle') = Len(unfinished)
            /\ \A i \in 1 .. Len(unfinished) : wait_handle'[i].task = unfinished[i].task
            /\ ret' = IF unfinished = <<>> THEN "ReadyNone" ELSE "Pending"]_vars

\* wait_handle_poll has run and returned Pending: two tasks are still stored,
\* both signalled, one of them has finished since and none holds a sender
C34_Witness ==
    /\ pc = "idle" /\ shutdown /\ ret = "Pending"
    /\ Len(wait_handle) = 2
    /\ \A i \in 1 .. Len(wait_handle) :
          ~ wait_handle[i].sender /\ wait_handle[i].task \in cancelled
    /\ \E i \in 1 .. Len(wait_handle) : wait_handle[i].task \in done

\* C35: the unreachable!() arm of session_poll is never executed: the
\* session-event receiver is never polled after Shutdown(true) closed it
\* and before it has reported its end.
C35_UnreachableNeverRuns == pc # "unreachable"

\* Shutdown(true) has closed the session-event receiver, the stream has been
\* polled again since (a cancelled task has finished and the poll found no
\* task left) and has yielded Ready(None) without polling the receiver
C35_Witness ==
    /\ pc = "idle"
    /\ session_event_receiver.closed /\ ~ session_event_receiver.terminated
    /\ shutdown /\ ret = "ReadyNone"
    /\ done # {} /\ wait_handle = <<>>

\* C36: termination is absorbing. Once the stream has yielded Ready(None),
\* every later step of the Service leaves it there: the poll returns at the
\* head with Ready(None) again, no field of the Service changes, no event and
\* no task is taken, no callback is made and no handler is initialised.
C36_TerminationAbsorbing ==
    [][Terminated
         => /\ Terminated' /\ pc' = "idle"
            /\ <<sessions, listens, dial_protocols, state, next_session, before_sends,
                 future_task_manager, future_task_sender, service_proto_handles,
                 session_proto_handles, session_event_receiver, service_task_receiver,
                 service_context_listens, wait_handle, config>>'
               = <<sessions, listens, dial_protocols, state, next_session, before_sends,
                   future_task_manager, future_task_sender, service_proto_handles,
                   session_proto_handles, session_event_receiver, service_task_receiver,
                   service_context_listens, wait_handle, config>>
            /\ calls' = <<>> /\ took_event' = NoEvent /\ took_task' = NoTask
            /\ inits' = inits]_vars

\* the stream has yielded Ready(None) by the termination condition of a
\* Service that does not run forever, after an earlier poll had returned
\* Pending for the stored tasks, which have all finished since
C36_Witness ==
    /\ Terminated /\ pc = "idle"
    /\ ~ state.shutdown /\ ~ state.forever
    /\ done # {} /\ wait_handle = <<>> /\ cancelled \subseteq done
    /\ ~ future_task_manager

\* a dial attempt for the address is under way: its future waits in the
\* future-task queue or runs in the FutureTaskManager, or it is a handshake
\* that Service::dial spawned
DialInFlight(address) ==
    \/ \E i \in 1 .. Len(future_task_sender.buffer) :
          future_task_sender.buffer[i] = FutureTask("dial", address)
    \/ \E i \in 1 .. Len(future_tasks) : future_tasks[i] = FutureTask("dial", address)
    \/ \E i \in 1 .. Len(handshakes) : handshakes[i] = address

\* C37: pending-dial records do not leak. In every reachable state each
\* address of dial_protocols belongs to a dial attempt that is still in
\* flight, so that a Dial task for an address is never ignored after the
\* previous attempt to it has finished.
C37_DialRecordsDoNotLeak ==
    \A address \in DOMAIN dial_protocols : DialInFlight(address)

\* the step adds no session and no listen address
NothingAdded ==
    /\ DOMAIN sessions' \subseteq DOMAIN sessions
    /\ listens' \subseteq listens

\* C38 as stated: after a Shutdown(_) task has been handled no step inserts
\* a session into the session map or an address into the listen set.
C38_NothingNewAfterShutdown ==
    [][state.shutdown => NothingAdded]_vars

\* C38, by the kind of Shutdown: after a Shutdown(_) task has been handled,
\* no step that takes a task adds a session or a listen address (Dial and
\* Listen tasks only start attempts), and nothing is added once the
\* session-event receiver is closed, that is after Shutdown(true).  After a
\* Shutdown(false) a session is added only by handling a HandshakeSuccess
\* event and a listen address only by handling a ListenStart event.
C38_NewOnlyByEventsAfterShutdown ==
    [][state.shutdown
         => /\ (pc = "user" \/ session_event_receiver.closed) => NothingAdded
            /\ ~ (DOMAIN sessions' \subseteq DOMAIN sessions)
                  => (pc = "session" /\ took_event'.ev = "HandshakeSuccess")
            /\ ~ (listens' \subseteq listens)
                  => (pc = "session" /\ took_event'.ev = "ListenStart")]_vars

\* after a Shutdown(false) the HandshakeSuccess of a dial attempt was
\* handled and has opened a session
C38_Witness ==
    /\ pc = "user" /\ state.shutdown /\ ~ session_event_receiver.closed
    /\ took_event.ev = "HandshakeSuccess" /\ took_event.ty = "Outbound"
    /\ took_event.attempt
    /\ CallsOfKind(calls, "SessionOpen") # {}
    /\ dial_protocols = << >> /\ DOMAIN sessions # {}

\* C39: a Service created with forever = false and polled for the first time
\* with pending = 0, no listen address, no session and an empty future-task
\* queue terminates at the head check of that poll: the step sets the
\* shutdown flag and yields Ready(None), the FutureTaskManager is not taken,
\* no service-level handle is instantiated and none gets Init, and no
\* ServiceTask and no event is taken.
C39_EmptyServiceEndsAtFirstPoll ==
    [][(/\ pc = "idle" /\ future_task_manager /\ ret = "None"
        /\ ~ state.forever /\ state.pending = 0
        /\ listens = {} /\ DOMAIN sessions = {} /\ Buffer_is_empty(future_task_sender)
        /\ (pc' # pc \/ ret' # ret))
         => /\ shutdown' /\ ret' = "ReadyNone" /\ pc' = "idle"
            /\ future_task_manager' /\ wait_handle' = <<>>
            /\ inits' = [p \in ProtocolIds |-> 0]
            /\ DOMAIN service_proto_handles' = {}
            /\ took_task' = NoTask /\ took_event' = NoEvent /\ calls' = <<>>
            /\ state' = state]_vars

\* the Service has ended at its first poll: the FutureTaskManager was never
\* taken, no handler exists, nothing was stored or cancelled
C39_Witness ==
    /\ pc = "idle" /\ shutdown /\ ret = "ReadyNone"
    /\ future_task_manager
    /\ ~ state.forever /\ ~ state.shutdown /\ state.pending = 0
    /\ inits = [p \in ProtocolIds |-> 0]
    /\ DOMAIN service_proto_handles = {} /\ cancelled = {}

\* the step handles an event of the kinds that name a session, or a task
\* that names one, for an id the session map does not have
StaleEventTaken ==
    /\ pc = "session"
    /\ took_event'.ev \in {"SessionClose", "ProtocolOpen", "ProtocolMessage", "ProtocolClose",
                           "ProtocolSelectError", "SessionTimeout", "MuxerError"}
    /\ took_event'.id \notin DOMAIN sessions
StaleTaskTaken ==
    /\ pc = "user"
    /\ \/ /\ took_task'.task \in {"Disconnect", "ProtocolOpen", "ProtocolClose"}
          /\ took_task'.session_id \notin DOMAIN sessions
       \/ /\ took_task'.task = "ProtocolMessage"
          /\ took_task'.target.kind = "Single"
          /\ took_task'.target.ids \cap DOMAIN sessions = {}

\* the step makes no callback and leaves the session map with its buffers,
\* the handler buffers, the listen set and the state
NoOp ==
    /\ calls' = <<>>
    /\ sessions' = sessions /\ listens' = listens /\ state' = state
    /\ service_proto_handles' = service_proto_handles
    /\ session_proto_handles' = session_proto_handles

\* C40 as stated: an internal SessionClose, ProtocolOpen, ProtocolMessage,
\* ProtocolClose, ProtocolSelectError, SessionTimeout or MuxerError event and
\* a Disconnect, ProtocolOpen, ProtocolClose or ProtocolMessage(Single) task
\* for an id that is not in the session map makes no callback and leaves
\* the session map, the listen set, state.pending and every outbound buffer.
C40_StaleIdsAreNoOps ==
    [][(StaleEventTaken \/ StaleTaskTaken) => NoOp]_vars

\* C40, with the flush of handle_message: the events of these kinds and the
\* Disconnect, ProtocolOpen and ProtocolClose tasks for an id that is not in
\* the session map make no callback and change nothing.  A
\* ProtocolMessage(Single) task for such an id pushes nothing and adds or
\* removes no session, but still flushes the buffers of the open sessions:
\* each hands to its channel what the channel takes, and SessionBlocked is
\* reported once for every session whose channel is full.
C40_StaleIdsOnlyFlush ==
    [][/\ (StaleEventTaken \/ (StaleTaskTaken /\ took_task'.task # "ProtocolMessage"))
            => NoOp
       /\ (StaleTaskTaken /\ took_task'.task = "ProtocolMessage")
            => LET blocked == {id \in DOMAIN sessions : try_send(sessions[id]).res = "Pending"} IN
               /\ listens' = listens /\ state' = state
               /\ service_proto_handles' = service_proto_handles
               /\ session_proto_handles' = session_proto_handles
               /\ DOMAIN sessions' = DOMAIN sessions
               /\ \A id \in DOMAIN sessions : sessions'[id] = try_send(sessions[id]).b
               /\ Len(calls') = Cardinality(blocked)
               /\ \A id \in blocked :
                     Cardinality(CallsOf(calls', "SessionBlocked", id)) = 1]_vars

\* a ProtocolMessage(Single) task for a session the map does not have was
\* handled while the channel of an open session was full: SessionBlocked is
\* reported for that session
C40_Witness ==
    /\ pc = "end"
    /\ took_task.task = "ProtocolMessage" /\ took_task.target.kind = "Single"
    /\ took_task.target.ids \cap DOMAIN sessions = {}
    /\ \E id \in DOMAIN sessions :
          /\ sessions[id].room = 0 /\ sessions[id].buffer # <<>>
          /\ CallsOf(calls, "SessionBlocked", id) # {}

====
